---- MODULE Spec2Model ----
(***************************************************************************)
(* Multi-cloud scan aggregation of CloudCostVisuals: the three provider    *)
(* adapters (fetchAWSAssetsAndCosts, fetchAzureAssetsAndCosts,             *)
(* fetchGCPAssetsAndCosts), the persistence writer (saveScanResults), the  *)
(* aggregation endpoint (POST /api/scan), the scheduler's scanAllClouds    *)
(* and the class based AWSConnector.scanAssets.                            *)
(*                                                                         *)
(* Conventions.  Money is an integer number of cents as reported by the    *)
(* billing APIs; a per-asset share is the exact quotient, kept as a        *)
(* reduced fraction.  A JavaScript string that may be absent or empty is   *)
(* the string itself, "" standing for undefined / null / "".  An optional  *)
(* amount is <<>> (absent) or <<n>>.  String splitting is tabulated over   *)
(* the strings the model uses.                                             *)
(***************************************************************************)
EXTENDS Integers, Sequences, FiniteSets, Bags, TLC

(***************************************************************************)
(* Bounds of the model.                                                    *)
(***************************************************************************)
MaxProviders == 2       \* longest explicit `providers` list of a request
MaxClock == 1           \* last scan-timestamp bucket the clock reaches
MaxWrites == 2          \* direct calls of the persistence writer in one behaviour
MaxAssets == 2          \* resources a listing call answers, for an adapter followed on its own
MaxBillRows == 2        \* groups / rows / results a cost query answers, likewise
MaxMonths == 2          \* calendar months the scan history spans, for the trend query
MaxCalls == 2           \* GET /api/scans/trends requests in one behaviour
MaxTicks == 2           \* cron ticks, of both scheduled jobs together, in one behaviour
MaxScans == 2           \* scan requests the dashboard page sends in one behaviour
MaxEdits == 1           \* edits of the asset list (add, delete, load demo data) in one behaviour

(***************************************************************************)
(* Generic helpers on JavaScript values.                                   *)
(***************************************************************************)
\* s || d on strings
OrElse(s, d) == IF s = "" THEN d ELSE s

\* parts[i] of a JavaScript array (0-based), undefined read as ""
At(parts, i) == IF (i + 1) \in DOMAIN parts THEN parts[i + 1] ELSE ""

\* parseFloat(a || "0") on an optional numeric string
Amount(a) == IF a = <<>> THEN 0 ELSE a[1]

\* {} as Record<string, number>
EmptyMap == [k \in {} |-> 0]

\* m[k] = (m[k] || 0) + v
MapAdd(m, k, v) ==
  [x \in (DOMAIN m) \cup {k} |->
     IF x = k THEN (IF k \in DOMAIN m THEN m[k] ELSE 0) + v ELSE m[x]]

\* m[k] used as a condition: defined and non-zero
Truthy(m, k) == k \in DOMAIN m /\ m[k] # 0

RECURSIVE Gcd(_, _)
Gcd(a, b) == IF b = 0 THEN a ELSE Gcd(b, a % b)

Abs(n) == IF n < 0 THEN 0 - n ELSE n

\* the number n / d (d > 0), as a reduced fraction
Quot(n, d) ==
  LET g == Gcd(Abs(n), d)
  IN  IF n = 0 THEN [num |-> 0, den |-> 1]
      ELSE [num |-> n \div g, den |-> d \div g]

Zero == [num |-> 0, den |-> 1]

RECURSIVE SeqSum(_)
SeqSum(s) == IF s = <<>> THEN 0 ELSE s[1] + SeqSum(Tail(s))

RECURSIVE Concat(_)
Concat(ss) == IF ss = <<>> THEN <<>> ELSE ss[1] \o Concat(Tail(ss))

\* the subsequence of s whose elements satisfy Test
SelectIdx(s, Keep(_)) ==
  LET F[i \in 0..Len(s)] ==
        IF i = 0 THEN <<>>
        ELSE IF Keep(i) THEN Append(F[i - 1], s[i]) ELSE F[i - 1]
  IN  F[Len(s)]

Range(s) == {s[i] : i \in DOMAIN s}

\* the bag of the elements of a sequence
SeqToBag(s) ==
  [x \in Range(s) |-> Cardinality({i \in DOMAIN s : s[i] = x})]

(***************************************************************************)
(* String tables: the splits the adapters perform.                         *)
(***************************************************************************)
\* ResourceARN.split(":")
ArnSplit(arn) ==
  CASE arn = "arn:aws:compute:r1:1:i-1" -> <<"arn", "aws", "compute", "r1", "1", "i-1">>
    [] arn = "arn:aws:compute:r2:1:i-2" -> <<"arn", "aws", "compute", "r2", "1", "i-2">>
    [] arn = "arn:aws:storage:::b-1"    -> <<"arn", "aws", "storage", "", "", "b-1">>
    [] OTHER -> <<arn>>

\* type.split('/')[0]
SlashFirst(t) ==
  CASE t = "compute/vm"      -> "compute"
    [] t = "compute/disk"    -> "compute"
    [] t = "storage/account" -> "storage"
    [] OTHER -> t

\* assetType.split('.').pop()
DotLast(t) ==
  CASE t = "googleapis.compute" -> "compute"
    [] t = "googleapis.storage" -> "storage"
    [] OTHER -> t

\* location.split('/').pop()
SlashLast(l) ==
  CASE l = "zones/r1" -> "r1"
    [] l = "zones/r2" -> "r2"
    [] OTHER -> l

(***************************************************************************)
(* Vendor side: what the SDK calls of one provider answer when they        *)
(* succeed, and whether the credentials are in the environment.            *)
(***************************************************************************)
\* AWS: GetResources answers ARNs, GetCostAndUsage a Total and Groups
AWSAccounts ==
  { [configured |-> FALSE, resources |-> <<>>, total |-> <<>>, groups |-> <<>>],
    [configured |-> TRUE,
     resources |-> <<"arn:aws:compute:r1:1:i-1", "arn:aws:storage:::b-1">>,
     total |-> <<40>>,
     groups |-> << [keys |-> <<"compute", "r1">>, amount |-> <<30>>],
                   [keys |-> <<"storage", "r1">>, amount |-> <<10>>] >>],
    [configured |-> TRUE,
     resources |-> <<"arn:aws:compute:r1:1:i-1", "arn:aws:compute:r2:1:i-2">>,
     total |-> <<>>,
     groups |-> << [keys |-> <<"compute", "r1">>, amount |-> <<25>>],
                   [keys |-> <<"compute", "r2">>, amount |-> <<26>>],
                   [keys |-> <<>>, amount |-> <<>>] >>] }

\* Azure: Resource Graph answers rows (id, type, location), queryUsage rows
AzureAccounts ==
  { [configured |-> FALSE, resources |-> <<>>, rows |-> <<>>],
    [configured |-> TRUE,
     resources |-> << [id |-> "az-vm-1", type |-> "compute/vm", location |-> "r1"],
                      [id |-> "az-sa-1", type |-> "storage", location |-> ""] >>,
     rows |-> << <<"compute/vm", "r1", 20>>, <<"storage", "", 10>> >>] }

\* GCP: listAssets answers assets, getProjectBillingInfo the billing account,
\* queryCostStream the cost results
GCPAccounts ==
  { [configured |-> FALSE, assets |-> <<>>, billingAccountName |-> "",
     results |-> <<>>],
    [configured |-> TRUE,
     assets |-> << [name |-> "gcp-i-1", assetType |-> "googleapis.compute",
                    location |-> "zones/r1"],
                   [name |-> "gcp-b-1", assetType |-> "googleapis.storage",
                    location |-> ""] >>,
     billingAccountName |-> "billingAccounts/1",
     results |-> << [service |-> "storage", region |-> "r1", amount |-> <<10>>],
                    [service |-> "compute", region |-> "", amount |-> <<5>>] >>],
    [configured |-> TRUE,
     assets |-> << [name |-> "gcp-i-1", assetType |-> "googleapis.compute",
                    location |-> "zones/r1"] >>,
     billingAccountName |-> "",
     results |-> <<>>] }

(***************************************************************************)
(* The pure part of the three adapters: normalisation, cost breakdown and  *)
(* even-split attribution.                                                 *)
(***************************************************************************)
\* entries: sequence of [key, amount]; the map key -> sum of its amounts
RECURSIVE SumByKey(_)
SumByKey(es) ==
  IF es = <<>> THEN EmptyMap
  ELSE MapAdd(SumByKey(SubSeq(es, 1, Len(es) - 1)), es[Len(es)].key, es[Len(es)].amount)

\* assetCountByService[svc]
CountService(assets, svc) ==
  Cardinality({i \in DOMAIN assets : assets[i].service = svc})

fetchAWSAssetsAndCosts(acct) ==
  LET assets == [i \in DOMAIN acct.resources |->
                   LET arnParts == ArnSplit(acct.resources[i])
                   IN  [id |-> acct.resources[i],
                        service |-> OrElse(At(arnParts, 2), "unknown"),
                        region |-> OrElse(At(arnParts, 3), "unknown"),
                        resourceId |-> OrElse(At(arnParts, 5),
                                              OrElse(At(arnParts, 6), "unknown")),
                        provider |-> "AWS"]]
      totalCost == Amount(acct.total)
      costByService ==
        SumByKey([i \in DOMAIN acct.groups |->
                    [key |-> OrElse(At(acct.groups[i].keys, 0), "unknown"),
                     amount |-> Amount(acct.groups[i].amount)]])
      costByRegion ==
        SumByKey([i \in DOMAIN acct.groups |->
                    [key |-> OrElse(At(acct.groups[i].keys, 1), "unknown"),
                     amount |-> Amount(acct.groups[i].amount)]])
      assetsWithCost ==
        [i \in DOMAIN assets |->
           assets[i] @@
           [costThisMonth |->
              IF Truthy(costByService, assets[i].service)
              THEN Quot(costByService[assets[i].service],
                        CountService(assets, assets[i].service))
              ELSE Zero]]
  IN  [provider |-> "AWS", assets |-> assetsWithCost, totalCost |-> totalCost,
       costByService |-> costByService, costByRegion |-> costByRegion]

fetchAzureAssetsAndCosts(acct) ==
  LET assets == [i \in DOMAIN acct.resources |->
                   [id |-> acct.resources[i].id,
                    service |-> OrElse(SlashFirst(acct.resources[i].type), "unknown"),
                    resourceType |-> acct.resources[i].type,
                    region |-> OrElse(acct.resources[i].location, "unknown"),
                    provider |-> "Azure"]]
      totalCost == SeqSum([i \in DOMAIN acct.rows |-> acct.rows[i][3]])
      costByService ==
        SumByKey([i \in DOMAIN acct.rows |->
                    [key |-> acct.rows[i][1], amount |-> acct.rows[i][3]]])
      costByRegion ==
        SumByKey([i \in DOMAIN acct.rows |->
                    [key |-> OrElse(acct.rows[i][2], "unknown"),
                     amount |-> acct.rows[i][3]]])
      assetsWithCost ==
        [i \in DOMAIN assets |->
           assets[i] @@
           [costThisMonth |->
              IF Truthy(costByService, assets[i].resourceType)
              THEN Quot(costByService[assets[i].resourceType],
                        CountService(assets, assets[i].service))
              ELSE Zero]]
  IN  [provider |-> "Azure", assets |-> assetsWithCost, totalCost |-> totalCost,
       costByService |-> costByService, costByRegion |-> costByRegion]

fetchGCPAssetsAndCosts(acct) ==
  LET assetList == [i \in DOMAIN acct.assets |->
                      [id |-> acct.assets[i].name,
                       service |-> OrElse(DotLast(acct.assets[i].assetType), "unknown"),
                       resourceType |-> OrElse(acct.assets[i].assetType, "unknown"),
                       region |-> OrElse(SlashLast(acct.assets[i].location), "global"),
                       provider |-> "GCP"]]
      totalCost == SeqSum([i \in DOMAIN acct.results |-> Amount(acct.results[i].amount)])
      costByService ==
        SumByKey([i \in DOMAIN acct.results |->
                    [key |-> OrElse(acct.results[i].service, "unknown"),
                     amount |-> Amount(acct.results[i].amount)]])
      costByRegion ==
        SumByKey([i \in DOMAIN acct.results |->
                    [key |-> OrElse(acct.results[i].region, "unknown"),
                     amount |-> Amount(acct.results[i].amount)]])
      assetsWithCost ==
        [i \in DOMAIN assetList |->
           assetList[i] @@
           [costThisMonth |->
              IF Truthy(costByService, assetList[i].service)
              THEN Quot(costByService[assetList[i].service],
                        CountService(assetList, assetList[i].service))
              ELSE Zero]]
  IN  [provider |-> "GCP", assets |-> assetsWithCost, totalCost |-> totalCost,
       costByService |-> costByService, costByRegion |-> costByRegion]

\* the ScanResult adapter p computes from its vendor's answers
Adapters == {"aws", "azure", "gcp"}

ScanResultOf(p, acct) ==
  CASE p = "aws"   -> fetchAWSAssetsAndCosts(acct)
    [] p = "azure" -> fetchAzureAssetsAndCosts(acct)
    [] p = "gcp"   -> fetchGCPAssetsAndCosts(acct)

\* the provider name an adapter passes to saveScanResults and puts in its
\* result and in its error messages
ProviderName(p) ==
  CASE p = "aws" -> "AWS" [] p = "azure" -> "Azure" [] p = "gcp" -> "GCP"

(***************************************************************************)
(* Persistence writer.                                                     *)
(***************************************************************************)
\* the uniqueness key of a scan-history row
UniqueKey(row) == <<row.provider, row.resourceId, row.scannedAt>>

\* every row is inserted, colliding or not
createMany_Append(table, data, skipDuplicates) ==
  [ok |-> TRUE, table |-> table (+) SeqToBag(data)]

\* prisma.cloudScan.createMany({data, skipDuplicates}) on table
createMany(table, data, skipDuplicates) ==
  LET Fresh(i) ==
        /\ \A r \in BagToSet(table) : UniqueKey(r) # UniqueKey(data[i])
        /\ \A j \in 1..(i - 1) : UniqueKey(data[j]) # UniqueKey(data[i])
  IN  IF skipDuplicates
      THEN [ok |-> TRUE, table |-> table (+) SeqToBag(SelectIdx(data, Fresh))]
      ELSE IF \A i \in DOMAIN data : Fresh(i)
           THEN [ok |-> TRUE, table |-> table (+) SeqToBag(data)]
           ELSE [ok |-> FALSE, table |-> table]

\* the instants at which the rows of a batch of n assets read the clock
\* (scannedAt: new Date() inside assets.map), the first at t: the clock may
\* move on between two rows
RowStamps(n, t) ==
  {s \in [1..n -> t..MaxClock] :
     /\ n > 0 => s[1] = t
     /\ \A i \in 1..(n - 1) : s[i] <= s[i + 1]}

\* the clock after the rows have been built
LastStamp(stamps, t) == IF stamps = <<>> THEN t ELSE stamps[Len(stamps)]

\* the rows saveScanResults builds from an adapter's assets, row i reading
\* the clock at stamps[i]
ScanRows(provider, assets, scanType, stamps) ==
  [i \in DOMAIN assets |->
     [provider |-> provider,
      region |-> OrElse(assets[i].region, "unknown"),
      service |-> assets[i].service,
      resourceId |-> IF assets[i].id # "" THEN assets[i].id
                     ELSE IF "resourceId" \in DOMAIN assets[i]
                          THEN assets[i].resourceId ELSE "",
      costThisMonth |-> assets[i].costThisMonth,
      scanType |-> scanType,
      scannedAt |-> stamps[i]]]

\* saveScanResults(provider, assets, scanType) on table: createMany inserts
\* the rows, or fails (ok = FALSE) and the error is logged and thrown again
saveScanResults(table, provider, assets, scanType, stamps, ok) ==
  IF ok
  THEN [threw |-> FALSE,
        table |-> createMany(table, ScanRows(provider, assets, scanType, stamps),
                             TRUE).table]
  ELSE [threw |-> TRUE, table |-> table]

(***************************************************************************)
(* State.                                                                  *)
(***************************************************************************)
VARIABLES
  vendor,        \* adapter -> the account its SDK calls answer from
  now,           \* the clock: current scan-timestamp bucket
  cloudScan,     \* the scan-history table, a bag of rows
  pc,            \* caller -> "idle" | "awaiting" | "done"
  providers,     \* caller -> the provider list used to label the results
  scanPromises,  \* caller -> the adapters dispatched, in dispatch order
  promise,       \* caller -> adapter -> state of that adapter call
  response,      \* caller -> what the caller got back
  log,           \* the direct calls of saveScanResults made so far
  connector,     \* one AWSConnector.scanAssets call and its SDK answers
  scanResult,    \* one adapter call followed on its own: its position and result
  redis,         \* the trend cache: the client's connection and the stored keys
  trends,        \* the GET /api/scans/trends requests: position, filter, response
  cron,          \* the scheduler: the ticks of each job fired so far
  page           \* the dashboard page: its React state, localStorage, its requests

vars == <<vendor, now, cloudScan, pc, providers, scanPromises, promise,
          response, log, connector, scanResult, redis, trends, cron, page>>

PostCallers == {"post"}
Jobs == {"daily", "weekly"}
Callers == PostCallers \cup Jobs

\* provider ids a request may name; "other" is an id the endpoint does not know
ProviderIds == Adapters \cup {"other"}

ProviderLists == UNION {[1..n -> ProviderIds] : n \in 0..MaxProviders}

\* request bodies: unparsable / providers not an array, providers omitted,
\* or an explicit list
Bodies ==
  {[kind |-> "malformed", providers |-> <<>>],
   [kind |-> "omitted", providers |-> <<>>]}
  \cup {[kind |-> "list", providers |-> l] : l \in ProviderLists}

Accounts(p) ==
  CASE p = "aws" -> AWSAccounts [] p = "azure" -> AzureAccounts
    [] p = "gcp" -> GCPAccounts

\* the table an earlier manual AWS scan, made in bucket 0, has left
EarlierScan(vend) ==
  IF vend["aws"].configured
  THEN LET assets == fetchAWSAssetsAndCosts(vend["aws"]).assets
       IN  saveScanResults(EmptyBag, "AWS", assets, "manual",
                           [i \in DOMAIN assets |-> 0], TRUE).table
  ELSE EmptyBag

\* no AWSConnector in use
NoConnector == [pc |-> "unused"]

\* no adapter call followed on its own, no trend cache, no trend request
NoScanResult == [pc |-> "unused"]

\* no call of saveScanResults awaits its createMany
NoWrites == [pc |-> "writer", pending |-> <<>>]
NoRedis == [pc |-> "unused"]
NoTrends == [pc |-> "unused"]
NoCron == [pc |-> "unused"]
NoPage == [pc |-> "unused"]

NoPromise == [st |-> "none", cause |-> "", stamps |-> <<>>]
NoResponse == [kind |-> "none"]

Settled(pr) == pr.st \in {"fulfilled", "rejected"}
InFlight(pr) == pr.st \in {"listing", "billing", "cost", "saving"}

Init ==
  /\ vendor \in [Adapters -> UNION {Accounts(p) : p \in Adapters}]
  /\ \A p \in Adapters : vendor[p] \in Accounts(p)
  /\ now = 0
  /\ cloudScan \in {EmptyBag, EarlierScan(vendor)}
  /\ pc = [c \in Callers |-> "idle"]
  /\ providers = [c \in Callers |-> <<>>]
  /\ scanPromises = [c \in Callers |-> <<>>]
  /\ promise = [c \in Callers |-> [p \in Adapters |-> NoPromise]]
  /\ response = [c \in Callers |-> NoResponse]
  /\ log = <<>>
  /\ connector = NoConnector
  /\ scanResult = NoScanResult
  /\ redis = NoRedis
  /\ trends = NoTrends
  /\ cron = NoCron
  /\ page = NoPage

(***************************************************************************)
(* One adapter call.  Its synchronous prefix runs when it is dispatched;   *)
(* each await is one later step.                                           *)
(***************************************************************************)
\* an adapter function is called: the credential check, then the first await
Dispatch(p) ==
  IF vendor[p].configured
  THEN [st |-> "listing", cause |-> "", stamps |-> <<>>]
  ELSE [st |-> "rejected", cause |-> "config", stamps |-> <<>>]

Rejected(cause) == [st |-> "rejected", cause |-> cause, stamps |-> <<>>]

\* the resource listing call of adapter p of caller c returns
ListingReturns(c, p) ==
  /\ promise[c][p].st = "listing"
  /\ \E ok \in BOOLEAN :
       promise' = [promise EXCEPT ![c][p] =
         IF ~ok THEN Rejected("listing")
         ELSE IF p = "gcp" THEN [@ EXCEPT !.st = "billing"]
         ELSE [@ EXCEPT !.st = "cost"]]
  /\ UNCHANGED <<vendor, now, cloudScan, pc, providers, scanPromises, response>>

\* getProjectBillingInfo of the GCP adapter returns
BillingInfoReturns(c) ==
  /\ promise[c]["gcp"].st = "billing"
  /\ \E ok \in BOOLEAN :
       promise' = [promise EXCEPT ![c]["gcp"] =
         IF ~ok THEN Rejected("billing")
         ELSE IF vendor["gcp"].billingAccountName = "" THEN Rejected("nobilling")
         ELSE [@ EXCEPT !.st = "cost"]]
  /\ UNCHANGED <<vendor, now, cloudScan, pc, providers, scanPromises, response>>

\* the cost query returns; on success the adapter attributes costs, builds
\* the rows (scannedAt: new Date()) and issues createMany
CostReturns(c, p) ==
  /\ promise[c][p].st = "cost"
  /\ \E ok \in BOOLEAN :
       IF ~ok
       THEN /\ promise' = [promise EXCEPT ![c][p] = Rejected("cost")]
            /\ now' = now
       ELSE \E stamps \in RowStamps(Len(ScanResultOf(p, vendor[p]).assets), now) :
              /\ promise' = [promise EXCEPT ![c][p] =
                               [st |-> "saving", cause |-> "", stamps |-> stamps]]
              /\ now' = LastStamp(stamps, now)
  /\ UNCHANGED <<vendor, cloudScan, pc, providers, scanPromises, response>>

\* what the adapter's promise becomes when saveScanResults has returned
AfterSave(pr, saved) ==
  IF saved THEN [pr EXCEPT !.st = "fulfilled"] ELSE Rejected("save")

\* createMany returns: the rows are in the table, or the write failed
SaveReturns(c, p) ==
  /\ promise[c][p].st = "saving"
  /\ \E ok \in BOOLEAN :
       \E saved \in {saveScanResults(cloudScan, ProviderName(p),
                                     ScanResultOf(p, vendor[p]).assets, "manual",
                                     promise[c][p].stamps, ok)} :
         /\ promise' = [promise EXCEPT ![c][p] = AfterSave(@, ~saved.threw)]
         /\ cloudScan' = saved.table
  /\ UNCHANGED <<vendor, now, pc, providers, scanPromises, response>>

\* time passes to the next scan-timestamp bucket
Tick ==
  /\ now < MaxClock
  /\ now' = now + 1
  /\ UNCHANGED <<vendor, cloudScan, pc, providers, scanPromises, promise, response>>

(***************************************************************************)
(* Aggregation: POST /api/scan and the scheduler's scanAllClouds.          *)
(***************************************************************************)
DefaultProviders == <<"aws", "azure", "gcp">>

\* the promises the endpoint pushes: aws, azure, gcp, each if requested
ScanPromisesOf(provs) ==
  SelectIdx(DefaultProviders, LAMBDA i : DefaultProviders[i] \in Range(provs))

\* Promise.all instead of Promise.allSettled: resolves at the first rejection
AllSettled_FailFast(sp, prs) ==
  \/ \A i \in DOMAIN sp : prs[sp[i]].st = "fulfilled"
  \/ \E i \in DOMAIN sp : prs[sp[i]].st = "rejected"

\* Promise.allSettled(scanPromises) has resolved
AllSettled(sp, prs) == \A i \in DOMAIN sp : Settled(prs[sp[i]])

\* result.status is not looked at: every result counts
IndicesWith_All(sp, prs, st) == [i \in DOMAIN sp |-> i]

\* indices of the settled results with the given status, ascending
IndicesWith(sp, prs, st) ==
  SelectIdx([i \in DOMAIN sp |-> i], LAMBDA i : prs[sp[i]].st = st)

\* successfulScans: the values of the fulfilled results, in result order
SuccessfulScans(sp, prs, vend) ==
  LET idx == IndicesWith(sp, prs, "fulfilled")
  IN  [j \in DOMAIN idx |-> ScanResultOf(sp[idx[j]], vend[sp[idx[j]]])]

\* the message of the Error an adapter rejects with names the adapter
ErrorMessage(p, cause) == [adapter |-> ProviderName(p), cause |-> cause]

\* only the first rejection is reported
ScanErrors_FirstOnly(labels, sp, prs) ==
  LET idx == SelectIdx([i \in DOMAIN sp |-> i], LAMBDA i : prs[sp[i]].st = "rejected")
  IN  IF idx = <<>> THEN <<>>
      ELSE <<[provider |-> At(labels, idx[1] - 1),
              error |-> [adapter |-> ProviderName(sp[idx[1]]),
                         cause |-> prs[sp[idx[1]]].cause]]>>

\* errors: `${labels[index]}: ${message}` for every rejected result
ScanErrors(labels, sp, prs) ==
  LET idx == IndicesWith(sp, prs, "rejected")
  IN  [j \in DOMAIN idx |->
         [provider |-> At(labels, idx[j] - 1),
          error |-> ErrorMessage(sp[idx[j]], prs[sp[idx[j]]].cause)]]

\* acc[k] = cost: a colliding key is overwritten, not summed
MergeCosts_Overwrite(acc, m) ==
  [k \in (DOMAIN acc) \cup (DOMAIN m) |-> IF k \in DOMAIN m THEN m[k] ELSE acc[k]]

\* acc[k] = (acc[k] || 0) + cost for every entry [k, cost] of m
MergeCosts(acc, m) ==
  [k \in (DOMAIN acc) \cup (DOMAIN m) |->
     (IF k \in DOMAIN acc THEN acc[k] ELSE 0) + (IF k \in DOMAIN m THEN m[k] ELSE 0)]

RECURSIVE MergedCostByService(_)
MergedCostByService(scans) ==
  IF scans = <<>> THEN EmptyMap
  ELSE MergeCosts(MergedCostByService(SubSeq(scans, 1, Len(scans) - 1)),
                  scans[Len(scans)].costByService)

RECURSIVE MergedCostByRegion(_)
MergedCostByRegion(scans) ==
  IF scans = <<>> THEN EmptyMap
  ELSE MergeCosts(MergedCostByRegion(SubSeq(scans, 1, Len(scans) - 1)),
                  scans[Len(scans)].costByRegion)

\* costByProvider[scan.provider] = scan.totalCost || 0
CostByProvider(scans) ==
  [n \in {scans[i].provider : i \in DOMAIN scans} |->
     LET last == CHOOSE i \in DOMAIN scans :
                   /\ scans[i].provider = n
                   /\ \A j \in DOMAIN scans : scans[j].provider = n => j <= i
     IN  scans[last].totalCost]

\* lines 46-88 of POST: the response object built from the partition.  The
\* clock is read twice, once for the month of the trend entry (tMonth) and
\* once again for lastScan (tLast)
CombinedResponse(successfulScans, errors, tMonth, tLast) ==
  LET totalCost == SeqSum([i \in DOMAIN successfulScans |-> successfulScans[i].totalCost])
  IN  [kind |-> "json",
       status |-> 200,
       success |-> (Len(errors) = 0),
       providers |-> [i \in DOMAIN successfulScans |-> successfulScans[i].provider],
       assets |-> Concat([i \in DOMAIN successfulScans |-> successfulScans[i].assets]),
       costSummary |->
         [totalCost |-> totalCost,
          costByProvider |-> CostByProvider(successfulScans),
          costByService |-> MergedCostByService(successfulScans),
          costByRegion |-> MergedCostByRegion(successfulScans),
          monthlyTrend |-> <<[month |-> tMonth, cost |-> totalCost]>>],
       lastScan |-> tLast,
       errors |-> IF Len(errors) > 0 THEN <<errors>> ELSE <<>>]

\* the catch block of POST
ErrorResponse ==
  [kind |-> "json", status |-> 500, error |-> "Failed to scan cloud providers"]

\* a rejection is rethrown into the catch block instead of being collected
ScanResponse_Rethrow(labels, sp, prs, vend, tMonth, tLast) ==
  IF \E i \in DOMAIN sp : prs[sp[i]].st = "rejected"
  THEN ErrorResponse
  ELSE CombinedResponse(SuccessfulScans(sp, prs, vend), ScanErrors(labels, sp, prs),
                        tMonth, tLast)

\* the response of POST once allSettled has resolved
ScanResponse(labels, sp, prs, vend, tMonth, tLast) ==
  CombinedResponse(SuccessfulScans(sp, prs, vend), ScanErrors(labels, sp, prs),
                   tMonth, tLast)

\* POST /api/scan up to `await Promise.allSettled(scanPromises)`
PostRequest(c, body) ==
  /\ pc[c] = "idle"
  /\ IF body.kind = "malformed"
     THEN /\ response' = [response EXCEPT ![c] = ErrorResponse]
          /\ pc' = [pc EXCEPT ![c] = "done"]
          /\ providers' = [providers EXCEPT ![c] = <<>>]
          /\ scanPromises' = [scanPromises EXCEPT ![c] = <<>>]
          /\ promise' = [promise EXCEPT ![c] = [p \in Adapters |-> NoPromise]]
     ELSE LET provs == IF body.kind = "omitted" THEN DefaultProviders
                       ELSE body.providers
              sp == ScanPromisesOf(provs)
          IN  /\ providers' = [providers EXCEPT ![c] = provs]
              /\ scanPromises' = [scanPromises EXCEPT ![c] = sp]
              /\ promise' = [promise EXCEPT ![c] =
                   [p \in Adapters |->
                      IF p \in Range(sp) THEN Dispatch(p) ELSE NoPromise]]
              /\ pc' = [pc EXCEPT ![c] = "awaiting"]
              /\ response' = [response EXCEPT ![c] = NoResponse]
  /\ UNCHANGED <<vendor, now, cloudScan>>

\* POST /api/scan from the resolution of allSettled to the response: the
\* month is taken from one reading of the clock, lastScan from a later one,
\* and the clock may have moved between the two
PostRespond(c) ==
  /\ pc[c] = "awaiting"
  /\ AllSettled(scanPromises[c], promise[c])
  /\ \E tLast \in now..MaxClock :
       /\ response' = [response EXCEPT ![c] =
            ScanResponse(providers[c], scanPromises[c], promise[c], vendor, now, tLast)]
       /\ now' = tLast
  /\ pc' = [pc EXCEPT ![c] = "done"]
  /\ UNCHANGED <<vendor, cloudScan, providers, scanPromises, promise>>

\* the labels scanAllClouds logs its results under
SchedulerLabels == <<"AWS", "Azure", "GCP">>

\* what scanAllClouds returns once allSettled has resolved (its errors are
\* only logged)
ScanAllCloudsResult(sp, prs, vend) ==
  [kind |-> "returned",
   scans |-> SuccessfulScans(sp, prs, vend),
   errors |-> ScanErrors(SchedulerLabels, sp, prs)]

\* the callback starts a scan only while no scheduled scan is in progress
CronTick_Exclusive(job) ==
  /\ \A r \in DOMAIN pc : pc[r] # "awaiting"
  /\ pc[job] = "idle"
  /\ providers' = [providers EXCEPT ![job] = SchedulerLabels]
  /\ scanPromises' = [scanPromises EXCEPT ![job] = DefaultProviders]
  /\ promise' = [promise EXCEPT ![job] = [p \in Adapters |-> Dispatch(p)]]
  /\ pc' = [pc EXCEPT ![job] = "awaiting"]
  /\ response' = [response EXCEPT ![job] = NoResponse]
  /\ UNCHANGED <<vendor, now, cloudScan>>

\* a scan that ends with errors is started again at once
ScanAllCloudsReturns_Retry(job) ==
  /\ pc[job] = "awaiting"
  /\ AllSettled(scanPromises[job], promise[job])
  /\ IF ScanErrors(SchedulerLabels, scanPromises[job], promise[job]) # <<>>
     THEN /\ promise' = [promise EXCEPT ![job] = [p \in Adapters |-> Dispatch(p)]]
          /\ UNCHANGED <<response, pc>>
     ELSE /\ response' = [response EXCEPT ![job] =
               ScanAllCloudsResult(scanPromises[job], promise[job], vendor)]
          /\ pc' = [pc EXCEPT ![job] = "done"]
          /\ UNCHANGED promise
  /\ UNCHANGED <<vendor, now, cloudScan, providers, scanPromises>>

\* a cron tick of a job: the callback calls scanAllClouds(job), which
\* dispatches the three adapters
CronTick(job) ==
  /\ pc[job] = "idle"
  /\ providers' = [providers EXCEPT ![job] = SchedulerLabels]
  /\ scanPromises' = [scanPromises EXCEPT ![job] = DefaultProviders]
  /\ promise' = [promise EXCEPT ![job] = [p \in Adapters |-> Dispatch(p)]]
  /\ pc' = [pc EXCEPT ![job] = "awaiting"]
  /\ response' = [response EXCEPT ![job] = NoResponse]
  /\ UNCHANGED <<vendor, now, cloudScan>>

\* scanAllClouds resumes after allSettled and returns to the callback
ScanAllCloudsReturns(job) ==
  /\ pc[job] = "awaiting"
  /\ AllSettled(scanPromises[job], promise[job])
  /\ response' = [response EXCEPT ![job] =
       ScanAllCloudsResult(scanPromises[job], promise[job], vendor)]
  /\ pc' = [pc EXCEPT ![job] = "done"]
  /\ UNCHANGED <<vendor, now, cloudScan, providers, scanPromises, promise>>

(***************************************************************************)
(* A behaviour follows one scan, of one caller, from its start to its      *)
(* result: a scan starts only while no caller has started one.             *)
(***************************************************************************)
Quiet == \A c \in Callers : pc[c] = "idle"

Request ==
  /\ Quiet /\ \E c \in PostCallers : \E body \in Bodies : PostRequest(c, body)
  /\ UNCHANGED <<log, connector, scanResult, redis, trends, cron, page>>
Respond ==
  /\ \E c \in PostCallers : PostRespond(c)
  /\ UNCHANGED <<log, connector, scanResult, redis, trends, cron, page>>
Cron ==
  /\ Quiet /\ \E job \in Jobs : CronTick(job)
  /\ UNCHANGED <<log, connector, scanResult, redis, trends, cron, page>>
CronDone ==
  /\ \E job \in Jobs : ScanAllCloudsReturns(job)
  /\ UNCHANGED <<log, connector, scanResult, redis, trends, cron, page>>
Listing ==
  /\ \E c \in Callers : \E p \in Adapters : ListingReturns(c, p)
  /\ UNCHANGED <<log, connector, scanResult, redis, trends, cron, page>>
Billing ==
  /\ \E c \in Callers : BillingInfoReturns(c)
  /\ UNCHANGED <<log, connector, scanResult, redis, trends, cron, page>>
Cost ==
  /\ \E c \in Callers : \E p \in Adapters : CostReturns(c, p)
  /\ UNCHANGED <<log, connector, scanResult, redis, trends, cron, page>>
Save ==
  /\ \E c \in Callers : \E p \in Adapters : SaveReturns(c, p)
  /\ UNCHANGED <<log, connector, scanResult, redis, trends, cron, page>>

Clock == Tick /\ UNCHANGED <<log, connector, scanResult, redis, trends, cron, page>>

Next ==
  \/ Request
  \/ Respond
  \/ Cron
  \/ CronDone
  \/ Listing
  \/ Billing
  \/ Cost
  \/ Save
  \/ Clock

Spec == Init /\ [][Next]_vars

(***************************************************************************)
(* The persistence writer on its own: saveScanResults called directly,     *)
(* with batches the adapters can produce.                                  *)
(***************************************************************************)
ScanTypes == {"manual", "daily"}

\* the asset batches adapter p can hand to saveScanResults
Batches(p) == {ScanResultOf(p, a).assets : a \in Accounts(p)}

InitPersist ==
  /\ vendor = [p \in Adapters |-> CHOOSE a \in Accounts(p) : ~a.configured]
  /\ now = 0
  /\ cloudScan = EmptyBag
  /\ pc = [c \in Callers |-> "idle"]
  /\ providers = [c \in Callers |-> <<>>]
  /\ scanPromises = [c \in Callers |-> <<>>]
  /\ promise = [c \in Callers |-> [p \in Adapters |-> NoPromise]]
  /\ response = [c \in Callers |-> NoResponse]
  /\ log = <<>>
  /\ connector = NoConnector
  /\ scanResult = NoWrites
  /\ redis = NoRedis
  /\ trends = NoTrends
  /\ cron = NoCron
  /\ page = NoPage

\* saveScanResults(provider, assets, scanType) is called: it builds the rows,
\* each reading the clock, and awaits createMany
Record(p, assets, scanType) ==
  /\ Len(log) + Len(scanResult.pending) < MaxWrites
  /\ \E stamps \in RowStamps(Len(assets), now) :
       /\ scanResult' = [scanResult EXCEPT !.pending =
            Append(@, [provider |-> ProviderName(p), assets |-> assets,
                       scanType |-> scanType, scannedAt |-> stamps])]
       /\ now' = LastStamp(stamps, now)
  /\ UNCHANGED <<vendor, cloudScan, pc, providers, scanPromises, promise,
                 response, log, connector, redis, trends, cron, page>>

\* createMany of a call returns or fails: saveScanResults returns or throws
RecordReturns ==
  /\ \E i \in DOMAIN scanResult.pending : \E ok \in BOOLEAN :
       LET e == scanResult.pending[i]
       IN  \E saved \in {saveScanResults(cloudScan, e.provider, e.assets,
                                         e.scanType, e.scannedAt, ok)} :
           /\ cloudScan' = saved.table
           /\ log' = Append(log, [provider |-> e.provider, assets |-> e.assets,
                                  scanType |-> e.scanType,
                                  scannedAt |-> e.scannedAt,
                                  threw |-> saved.threw])
           /\ scanResult' = [scanResult EXCEPT !.pending =
                SelectIdx(scanResult.pending, LAMBDA j : j # i)]
  /\ UNCHANGED <<vendor, now, pc, providers, scanPromises, promise, response,
                 connector, redis, trends, cron, page>>

Write == \E p \in Adapters : \E assets \in Batches(p) : \E t \in ScanTypes :
           Record(p, assets, t)

NextPersist ==
  \/ Write
  \/ RecordReturns
  \/ Clock

PersistSpec == InitPersist /\ [][NextPersist]_vars

(***************************************************************************)
(* AWSConnector.scanAssets, the adapter of the per-provider AWS endpoint.  *)
(***************************************************************************)
\* DescribeInstances answers (InstanceId "" : absent), with each instance's tags
EC2Answers ==
  { <<>>,
    << [InstanceId |-> "i-1", Tags |-> <<"Name:web">>] >>,
    << [InstanceId |-> "i-1", Tags |-> <<"Name:web">>],
       [InstanceId |-> "i-2", Tags |-> <<>>] >>,
    << [InstanceId |-> "", Tags |-> <<>>],
       [InstanceId |-> "i-2", Tags |-> <<"team:data">>] >> }

\* a bucket of a ListBuckets answer (Name "" : absent), with the tags
\* GetResources answers for it
Bucket(name, tags) == [Name |-> name, Tags |-> tags]

\* ListBuckets answers
S3Answers ==
  { <<>>,
    << Bucket("b-1", <<"team:data">>) >>,
    << Bucket("b-1", <<>>), Bucket("b-2", <<"Name:b-2">>) >>,
    << Bucket("b-1", <<>>), Bucket("", <<>>), Bucket("b-2", <<>>),
       Bucket("b-3", <<"team:data">>) >> }

InitConnector ==
  /\ vendor = [p \in Adapters |-> CHOOSE a \in Accounts(p) : ~a.configured]
  /\ now = 0
  /\ cloudScan = EmptyBag
  /\ pc = [c \in Callers |-> "idle"]
  /\ providers = [c \in Callers |-> <<>>]
  /\ scanPromises = [c \in Callers |-> <<>>]
  /\ promise = [c \in Callers |-> [p \in Adapters |-> NoPromise]]
  /\ response = [c \in Callers |-> NoResponse]
  /\ log = <<>>
  /\ scanResult = NoScanResult
  /\ redis = NoRedis
  /\ trends = NoTrends
  /\ cron = NoCron
  /\ page = NoPage
  /\ \E ec2 \in EC2Answers : \E s3 \in S3Answers :
       connector = [pc |-> "idle", ec2 |-> ec2, s3 |-> s3,
                    ec2Failed |-> FALSE, s3Failed |-> FALSE,
                    assets |-> <<>>, result |-> [status |-> "pending"]]

\* fetchEC2Instances: the instances it returns; a failed DescribeInstances is
\* caught and logged, a failed DescribeTags gives that instance no tags
fetchEC2Instances(answer, ok, tagsOk) ==
  IF ~ok THEN <<>>
  ELSE LET idx == SelectIdx([i \in DOMAIN answer |-> i],
                            LAMBDA i : answer[i].InstanceId # "")
       IN  [j \in DOMAIN idx |->
              [id |-> answer[idx[j]].InstanceId, provider |-> "AWS",
               service |-> "EC2", resourceId |-> answer[idx[j]].InstanceId,
               tags |-> IF idx[j] \in tagsOk THEN answer[idx[j]].Tags ELSE <<>>,
               connectedAssets |-> <<>>]]

\* fetchS3Buckets: the buckets it returns; a failed ListBuckets is caught
\* and logged, a failed GetResources (getBucketTags) gives that bucket no tags
fetchS3Buckets(answer, ok, tagsOk) ==
  IF ~ok THEN <<>>
  ELSE LET idx == SelectIdx([i \in DOMAIN answer |-> i],
                            LAMBDA i : answer[i].Name # "")
       IN  [j \in DOMAIN idx |->
              [id |-> answer[idx[j]].Name, provider |-> "AWS", service |-> "S3",
               resourceId |-> answer[idx[j]].Name,
               tags |-> IF idx[j] \in tagsOk THEN answer[idx[j]].Tags ELSE <<>>,
               connectedAssets |-> <<>>]]

\* addConnections: every EC2 instance is connected to the first two buckets
addConnections(assets) ==
  LET bucketIdx == SelectIdx([i \in DOMAIN assets |-> i],
                             LAMBDA i : assets[i].service = "S3")
      buckets == [j \in DOMAIN bucketIdx |-> assets[bucketIdx[j]]]
      compatibleBuckets == SubSeq(buckets, 1, IF Len(buckets) < 2 THEN Len(buckets) ELSE 2)
  IN  [i \in DOMAIN assets |->
         IF assets[i].service = "EC2"
         THEN [assets[i] EXCEPT !.connectedAssets =
                 [j \in DOMAIN compatibleBuckets |-> compatibleBuckets[j].id]]
         ELSE assets[i]]

\* scanAssets is called: it awaits fetchEC2Instances
ScanAssetsCalled ==
  /\ connector.pc = "idle"
  /\ connector' = [connector EXCEPT !.pc = "ec2"]
  /\ UNCHANGED <<vendor, now, cloudScan, pc, providers, scanPromises, promise,
                 response, log, scanResult, redis, trends,
                 cron, page>>

\* fetchEC2Instances resolves; scanAssets pushes the instances and awaits
\* fetchS3Buckets
EC2Fetched ==
  /\ connector.pc = "ec2"
  /\ \E ok \in BOOLEAN : \E tagsOk \in SUBSET (DOMAIN connector.ec2) :
       connector' = [connector EXCEPT
         !.pc = "s3",
         !.ec2Failed = ~ok,
         !.assets = fetchEC2Instances(connector.ec2, ok, tagsOk)]
  /\ UNCHANGED <<vendor, now, cloudScan, pc, providers, scanPromises, promise,
                 response, log, scanResult, redis, trends,
                 cron, page>>

\* fetchS3Buckets resolves; scanAssets pushes the buckets, adds the
\* connections and returns the assets
S3Fetched ==
  /\ connector.pc = "s3"
  /\ \E ok \in BOOLEAN : \E tagsOk \in SUBSET (DOMAIN connector.s3) :
       LET assets == addConnections(connector.assets
                                      \o fetchS3Buckets(connector.s3, ok, tagsOk))
       IN  connector' = [connector EXCEPT
             !.pc = "returned",
             !.s3Failed = ~ok,
             !.assets = assets,
             !.result = [status |-> "fulfilled", assets |-> assets]]
  /\ UNCHANGED <<vendor, now, cloudScan, pc, providers, scanPromises, promise,
                 response, log, scanResult, redis, trends,
                 cron, page>>

NextConnector ==
  \/ ScanAssetsCalled
  \/ EC2Fetched
  \/ S3Fetched

ConnectorSpec == InitConnector /\ [][NextConnector]_vars

(***************************************************************************)
(* Connection inference of the three class based connectors: the assets    *)
(* their fetchers return, then addConnections.                             *)
(***************************************************************************)
\* ListBuckets answers for connection inference: bucket names are chosen by
\* their owner, so one may read like an instance id
S3Names ==
  S3Answers \cup { << Bucket("i-1", <<>>) >>,
                   << Bucket("b-1", <<>>), Bucket("i-2", <<>>) >> }

\* vm.id.split('/')[4] and storage.id.split('/')[4]: the resource group
ResourceGroupOf(id) ==
  CASE id = "/subscriptions/s/resourceGroups/rg1/providers/Microsoft.Compute/virtualMachines/a" -> "rg1"
    [] id = "/subscriptions/s/resourceGroups/rg2/providers/Microsoft.Compute/virtualMachines/b" -> "rg2"
    [] id = "/subscriptions/s/resourceGroups/rg1/providers/Microsoft.Storage/storageAccounts/a" -> "rg1"
    [] id = "/subscriptions/s/resourceGroups/rg2/providers/Microsoft.Storage/storageAccounts/c" -> "rg2"
    [] OTHER -> ""

\* virtualMachines.listAll() answers
AzureVMAnswers ==
  LET a == [id |-> "/subscriptions/s/resourceGroups/rg1/providers/Microsoft.Compute/virtualMachines/a",
            name |-> "a", location |-> "eastus"]
      b == [id |-> "/subscriptions/s/resourceGroups/rg2/providers/Microsoft.Compute/virtualMachines/b",
            name |-> "b", location |-> "westus"]
      x == [id |-> "", name |-> "x", location |-> "eastus"]
  IN  { <<>>, <<a>>, <<b>>, <<a, b>>, <<x, a>> }

\* storageAccounts.list() answers
AzureStorageAnswers ==
  LET a == [id |-> "/subscriptions/s/resourceGroups/rg1/providers/Microsoft.Storage/storageAccounts/a",
            name |-> "a", location |-> "eastus"]
      c == [id |-> "/subscriptions/s/resourceGroups/rg2/providers/Microsoft.Storage/storageAccounts/c",
            name |-> "c", location |-> "westus"]
      x == [id |-> "/subscriptions/s/resourceGroups/rg1/providers/Microsoft.Storage/storageAccounts/a",
            name |-> "", location |-> "eastus"]
  IN  { <<>>, <<a>>, <<c>>, <<a, c>>, <<x, c>> }

\* AzureConnector.fetchVirtualMachines: instanceView is awaited for every
\* VM with id, name and location; when it fails for answer[failAt] the catch
\* ends the loop and the VMs pushed so far are returned (failAt = 0: no
\* failure)
fetchVirtualMachines(answer, failAt) ==
  LET complete(i) == answer[i].id # "" /\ answer[i].name # ""
                       /\ answer[i].location # ""
      stop == IF failAt \in DOMAIN answer THEN
                IF complete(failAt) THEN failAt ELSE Len(answer) + 1
              ELSE Len(answer) + 1
      idx == SelectIdx([i \in DOMAIN answer |-> i],
                       LAMBDA i : complete(i) /\ i < stop)
  IN  [j \in DOMAIN idx |->
         [id |-> answer[idx[j]].id, provider |-> "Azure",
          service |-> "Virtual Machine",
          resourceGroup |-> ResourceGroupOf(answer[idx[j]].id),
          connectedAssets |-> <<>>]]

\* AzureConnector.fetchStorageAccounts
fetchStorageAccounts(answer) ==
  LET idx == SelectIdx([i \in DOMAIN answer |-> i],
                       LAMBDA i : answer[i].id # "" /\ answer[i].name # ""
                                  /\ answer[i].location # "")
  IN  [j \in DOMAIN idx |->
         [id |-> answer[idx[j]].id, provider |-> "Azure",
          service |-> "Storage Account",
          resourceGroup |-> ResourceGroupOf(answer[idx[j]].id),
          connectedAssets |-> <<>>]]

\* AzureConnector.addConnections: every VM is connected to the storage
\* accounts of its resource group
addConnectionsAzure(assets) ==
  LET saIdx == SelectIdx([i \in DOMAIN assets |-> i],
                         LAMBDA i : assets[i].service = "Storage Account")
  IN  [i \in DOMAIN assets |->
         IF assets[i].service = "Virtual Machine"
         THEN LET compatible == SelectIdx(saIdx,
                    LAMBDA j : assets[saIdx[j]].resourceGroup = assets[i].resourceGroup)
              IN  [assets[i] EXCEPT !.connectedAssets =
                     [j \in DOMAIN compatible |-> assets[compatible[j]].id]]
         ELSE assets[i]]

\* `projects/${projectId}/zones/${zone}/instances/${name}`
GCPInstanceId(zone, name) ==
  CASE zone = "us-central1-a" /\ name = "web"   -> "projects/p/zones/us-central1-a/instances/web"
    [] zone = "europe-west3-b" /\ name = "web"  -> "projects/p/zones/europe-west3-b/instances/web"
    [] zone = "europe-west3-b" /\ name = "data" -> "projects/p/zones/europe-west3-b/instances/data"
    [] OTHER -> "projects/p/zones/z/instances/n"

\* `projects/${projectId}/buckets/${name}`
GCPBucketId(name) ==
  CASE name = "web"  -> "projects/p/buckets/web"
    [] name = "data" -> "projects/p/buckets/data"
    [] OTHER -> "projects/p/buckets/n"

\* mapGCPRegion: the zone without its last dash separated part
mapGCPRegion(zone) ==
  CASE zone = "us-central1-a"  -> "us-central1"
    [] zone = "europe-west3-b" -> "europe-west3"
    [] OTHER -> zone

\* mapGCPLocation: the display name of a known location, else the location
mapGCPLocation(location) ==
  CASE location = "US-CENTRAL1" -> "Central US"
    [] location = "us-central1" -> "Central US"
    [] location = "EUROPE"      -> "Europe"
    [] OTHER -> location

\* compute.aggregatedList answers: (zone, instance) in iteration order
GCPInstanceAnswers ==
  LET a == [zone |-> "us-central1-a", id |-> "1", name |-> "web"]
      b == [zone |-> "europe-west3-b", id |-> "2", name |-> "web"]
      c == [zone |-> "europe-west3-b", id |-> "3", name |-> "data"]
      x == [zone |-> "europe-west3-b", id |-> "", name |-> "data"]
  IN  { <<>>, <<a>>, <<b>>, <<a, b>>, <<b, c>>, <<x, b>> }

\* storage.getBuckets answers (metadata FALSE: the bucket carries no
\* metadata; location "" : metadata.location absent)
GCPBucketAnswers ==
  LET a == [name |-> "web", metadata |-> TRUE, location |-> "us-central1"]
      b == [name |-> "data", metadata |-> TRUE, location |-> "europe-west3"]
      c == [name |-> "web", metadata |-> TRUE, location |-> "europe-west3"]
      x == [name |-> "", metadata |-> TRUE, location |-> "europe-west3"]
      y == [name |-> "data", metadata |-> FALSE, location |-> ""]
      z == [name |-> "data", metadata |-> TRUE, location |-> ""]
  IN  { <<>>, <<a>>, <<b>>, <<a, b>>, <<b, c>>, <<x, c>>, <<y, c>>, <<z>> }

\* GCPConnector.fetchComputeInstances
fetchComputeInstances(answer) ==
  LET idx == SelectIdx([i \in DOMAIN answer |-> i],
                       LAMBDA i : answer[i].id # "" /\ answer[i].name # "")
  IN  [j \in DOMAIN idx |->
         [id |-> GCPInstanceId(answer[idx[j]].zone, answer[idx[j]].name),
          provider |-> "GCP", service |-> "Compute Engine",
          region |-> mapGCPRegion(answer[idx[j]].zone),
          resourceId |-> answer[idx[j]].id,
          connectedAssets |-> <<>>]]

\* GCPConnector.fetchStorageBuckets
fetchStorageBuckets(answer) ==
  LET idx == SelectIdx([i \in DOMAIN answer |-> i],
                       LAMBDA i : answer[i].name # "" /\ answer[i].metadata)
  IN  [j \in DOMAIN idx |->
         [id |-> GCPBucketId(answer[idx[j]].name),
          provider |-> "GCP", service |-> "Cloud Storage",
          region |-> mapGCPLocation(OrElse(answer[idx[j]].location, "unknown")),
          resourceId |-> answer[idx[j]].name,
          connectedAssets |-> <<>>]]

\* GCPConnector.addConnections: every instance is connected to the buckets
\* of its region
addConnectionsGCP(assets) ==
  LET bucketIdx == SelectIdx([i \in DOMAIN assets |-> i],
                             LAMBDA i : assets[i].service = "Cloud Storage")
  IN  [i \in DOMAIN assets |->
         IF assets[i].service = "Compute Engine"
         THEN LET compatibleBuckets == SelectIdx(bucketIdx,
                    LAMBDA j : assets[bucketIdx[j]].region = assets[i].region)
              IN  [assets[i] EXCEPT !.connectedAssets =
                     [j \in DOMAIN compatibleBuckets |-> assets[compatibleBuckets[j]].id]]
         ELSE assets[i]]

\* the assets a connector's two fetchers have pushed, before addConnections
FetchedAssets(p) ==
  CASE p = "aws" ->
         UNION {UNION {{fetchEC2Instances(e, eOk, eTags) \o fetchS3Buckets(b, bOk, bTags) :
                          eOk \in BOOLEAN, bOk \in BOOLEAN,
                          eTags \in SUBSET (DOMAIN e), bTags \in SUBSET (DOMAIN b)} :
                       b \in S3Names} :
                e \in EC2Answers}
    [] p = "azure" ->
         {fetchVirtualMachines(v, failAt) \o fetchStorageAccounts(a) :
            v \in AzureVMAnswers, a \in AzureStorageAnswers,
            failAt \in 0..MaxAssets}
    [] p = "gcp" ->
         {fetchComputeInstances(i) \o fetchStorageBuckets(b) :
            i \in GCPInstanceAnswers, b \in GCPBucketAnswers}

InitConnections ==
  /\ vendor = [p \in Adapters |-> CHOOSE a \in Accounts(p) : ~a.configured]
  /\ now = 0
  /\ cloudScan = EmptyBag
  /\ pc = [c \in Callers |-> "idle"]
  /\ providers = [c \in Callers |-> <<>>]
  /\ scanPromises = [c \in Callers |-> <<>>]
  /\ promise = [c \in Callers |-> [p \in Adapters |-> NoPromise]]
  /\ response = [c \in Callers |-> NoResponse]
  /\ log = <<>>
  /\ scanResult = NoScanResult
  /\ redis = NoRedis
  /\ trends = NoTrends
  /\ cron = NoCron
  /\ page = NoPage
  /\ \E p \in Adapters : \E assets \in FetchedAssets(p) :
       connector = [pc |-> "fetched", provider |-> p, assets |-> assets]

\* scanAssets calls addConnections(assets) and returns the assets
ConnectionsAdded ==
  /\ connector.pc = "fetched"
  /\ connector' = [connector EXCEPT
       !.pc = "connected",
       !.assets = CASE connector.provider = "aws" -> addConnections(connector.assets)
                    [] connector.provider = "azure" -> addConnectionsAzure(connector.assets)
                    [] connector.provider = "gcp" -> addConnectionsGCP(connector.assets)]
  /\ UNCHANGED <<vendor, now, cloudScan, pc, providers, scanPromises, promise,
                 response, log, scanResult, redis, trends,
                 cron, page>>

NextConnections ==
  \/ ConnectionsAdded

ConnectionsSpec == InitConnections /\ [][NextConnections]_vars

(***************************************************************************)
(* Two scans in flight at once: two on-demand requests, or an on-demand    *)
(* request and a scheduled run, against an account in which only AWS is    *)
(* configured.  Their adapter steps and writes interleave freely.          *)
(***************************************************************************)
ConcurrentCallers == {"post", "post2", "daily"}
ConcurrentPosts == {"post", "post2"}

\* the request bodies of the concurrent on-demand scans
ConcurrentBodies ==
  {[kind |-> "omitted", providers |-> <<>>],
   [kind |-> "list", providers |-> <<"aws">>]}

InitConcurrent ==
  /\ vendor \in [Adapters -> UNION {Accounts(p) : p \in Adapters}]
  /\ \A p \in Adapters : vendor[p] \in Accounts(p)
  /\ vendor["aws"].configured
  /\ ~vendor["azure"].configured
  /\ ~vendor["gcp"].configured
  /\ now = 0
  /\ cloudScan = EmptyBag
  /\ pc = [c \in ConcurrentCallers |-> "idle"]
  /\ providers = [c \in ConcurrentCallers |-> <<>>]
  /\ scanPromises = [c \in ConcurrentCallers |-> <<>>]
  /\ promise = [c \in ConcurrentCallers |-> [p \in Adapters |-> NoPromise]]
  /\ response = [c \in ConcurrentCallers |-> NoResponse]
  /\ log = <<>>
  /\ connector = NoConnector
  /\ scanResult = NoScanResult
  /\ redis = NoRedis
  /\ trends = NoTrends
  /\ cron = NoCron
  /\ page = NoPage

\* at most two of the callers scan
RoomForCaller == Cardinality({c \in ConcurrentCallers : pc[c] # "idle"}) < 2

ConcurrentRequest ==
  /\ RoomForCaller
  /\ \E c \in ConcurrentPosts : \E body \in ConcurrentBodies : PostRequest(c, body)
  /\ UNCHANGED <<log, connector, scanResult, redis, trends, cron, page>>
ConcurrentRespond ==
  /\ \E c \in ConcurrentPosts : PostRespond(c)
  /\ UNCHANGED <<log, connector, scanResult, redis, trends, cron, page>>
ConcurrentCron ==
  /\ RoomForCaller /\ CronTick("daily")
  /\ UNCHANGED <<log, connector, scanResult, redis, trends, cron, page>>
ConcurrentCronDone ==
  /\ ScanAllCloudsReturns("daily")
  /\ UNCHANGED <<log, connector, scanResult, redis, trends, cron, page>>
ConcurrentListing ==
  /\ \E c \in ConcurrentCallers : \E p \in Adapters : ListingReturns(c, p)
  /\ UNCHANGED <<log, connector, scanResult, redis, trends, cron, page>>
ConcurrentCost ==
  /\ \E c \in ConcurrentCallers : \E p \in Adapters : CostReturns(c, p)
  /\ UNCHANGED <<log, connector, scanResult, redis, trends, cron, page>>
ConcurrentSave ==
  /\ \E c \in ConcurrentCallers : \E p \in Adapters : SaveReturns(c, p)
  /\ UNCHANGED <<log, connector, scanResult, redis, trends, cron, page>>

NextConcurrent ==
  \/ ConcurrentRequest
  \/ ConcurrentRespond
  \/ ConcurrentCron
  \/ ConcurrentCronDone
  \/ ConcurrentListing
  \/ ConcurrentCost
  \/ ConcurrentSave
  \/ Clock

ConcurrentSpec == InitConcurrent /\ [][NextConcurrent]_vars

(***************************************************************************)
(* One adapter call followed on its own, over every listing and every bill *)
(* (within the bounds) its vendor can answer: amounts may be absent, zero, *)
(* positive or negative (credits, refunds).                                *)
(***************************************************************************)
SeqsUpTo(S, n) == UNION {[1..k -> S] : k \in 0..n}

\* Amount strings of a bill: absent, a credit, a charge
BillAmounts == {<<>>, <<0 - 5>>, <<30>>}

AWSBills ==
  LET arns == {"arn:aws:compute:r1:1:i-1", "arn:aws:compute:r2:1:i-2",
               "arn:aws:storage:::b-1"}
      groups == {[keys |-> k, amount |-> a] :
                   k \in {<<"compute", "r1">>, <<"storage", "r1">>, <<>>},
                   a \in BillAmounts}
  IN  {[configured |-> TRUE, resources |-> r, total |-> t, groups |-> g] :
         r \in SeqsUpTo(arns, MaxAssets), t \in BillAmounts,
         g \in SeqsUpTo(groups, MaxBillRows)}

AzureBills ==
  LET resources == {[id |-> "az-vm-1", type |-> "compute/vm", location |-> "r1"],
                    [id |-> "az-disk-1", type |-> "compute/disk", location |-> "r1"],
                    [id |-> "az-sa-1", type |-> "storage", location |-> ""]}
      rows == {<<"compute/vm", "r1", 30>>, <<"compute/vm", "", 0 - 5>>,
               <<"storage", "r1", 30>>, <<"compute", "r1", 30>>}
  IN  {[configured |-> TRUE, resources |-> r, rows |-> w] :
         r \in SeqsUpTo(resources, MaxAssets), w \in SeqsUpTo(rows, MaxBillRows)}

GCPBills ==
  LET assets == {[name |-> "gcp-i-1", assetType |-> "googleapis.compute",
                  location |-> "zones/r1"],
                 [name |-> "gcp-i-2", assetType |-> "googleapis.compute",
                  location |-> "zones/r2"],
                 [name |-> "gcp-b-1", assetType |-> "googleapis.storage",
                  location |-> ""]}
      results == {[service |-> v, region |-> IF v = "" THEN "" ELSE "r1",
                   amount |-> a] :
                    v \in {"compute", "storage", ""}, a \in BillAmounts}
  IN  {[configured |-> TRUE, assets |-> r,
        billingAccountName |-> "billingAccounts/1", results |-> w] :
         r \in SeqsUpTo(assets, MaxAssets), w \in SeqsUpTo(results, MaxBillRows)}

Bills(p) ==
  CASE p = "aws" -> AWSBills [] p = "azure" -> AzureBills [] p = "gcp" -> GCPBills

\* adapter p has its listing answer and awaits its cost query; the other
\* two adapters are not in use
InitAdapter ==
  /\ \E p \in Adapters : \E bill \in Bills(p) :
       /\ vendor = [q \in Adapters |->
                      IF q = p THEN bill
                      ELSE CHOOSE a \in Accounts(q) : ~a.configured]
       /\ scanResult = [pc |-> "cost", adapter |-> p]
  /\ now = 0
  /\ cloudScan = EmptyBag
  /\ pc = [c \in Callers |-> "idle"]
  /\ providers = [c \in Callers |-> <<>>]
  /\ scanPromises = [c \in Callers |-> <<>>]
  /\ promise = [c \in Callers |-> [p \in Adapters |-> NoPromise]]
  /\ response = [c \in Callers |-> NoResponse]
  /\ log = <<>>
  /\ connector = NoConnector
  /\ redis = NoRedis
  /\ trends = NoTrends
  /\ cron = NoCron
  /\ page = NoPage

\* the cost query returns: the adapter builds the cost breakdown, attributes
\* the costs and calls saveScanResults
AdapterCostReturns ==
  /\ scanResult.pc = "cost"
  /\ \E ok \in BOOLEAN :
       LET result == ScanResultOf(scanResult.adapter, vendor[scanResult.adapter])
       IN  IF ~ok
           THEN /\ scanResult' = [pc |-> "rejected", adapter |-> scanResult.adapter,
                                  result |-> result, stamps |-> <<>>,
                                  cause |-> "cost"]
                /\ now' = now
           ELSE \E stamps \in RowStamps(Len(result.assets), now) :
                  /\ scanResult' = [pc |-> "saving", adapter |-> scanResult.adapter,
                                    result |-> result, stamps |-> stamps,
                                    cause |-> ""]
                  /\ now' = LastStamp(stamps, now)
  /\ UNCHANGED <<vendor, cloudScan, pc, providers, scanPromises, promise,
                 response, log, connector, redis, trends,
                 cron, page>>

\* createMany returns: the adapter returns its result, or rejects
AdapterSaveReturns ==
  /\ scanResult.pc = "saving"
  /\ \E ok \in BOOLEAN :
       LET saved == saveScanResults(cloudScan, ProviderName(scanResult.adapter),
                                    scanResult.result.assets, "manual",
                                    scanResult.stamps, ok)
       IN  /\ scanResult' = [scanResult EXCEPT
                               !.pc = IF saved.threw THEN "rejected" ELSE "fulfilled",
                               !.cause = IF saved.threw THEN "save" ELSE ""]
           /\ cloudScan' = saved.table
  /\ UNCHANGED <<vendor, now, pc, providers, scanPromises, promise, response,
                 log, connector, redis, trends,
                 cron, page>>

NextAdapter ==
  \/ AdapterCostReturns
  \/ AdapterSaveReturns

AdapterSpec == InitAdapter /\ [][NextAdapter]_vars

(***************************************************************************)
(* Trend query and cache: GET /api/scans/trends.                           *)
(* The clock of these behaviours counts hours.  A percent_change is the    *)
(* string toFixed(2) returns: "NaN", or a decimal with two digits, kept as *)
(* its number of hundredths.                                               *)
(***************************************************************************)
\* redis.setEx(cacheKey, 3600, json): the expiry, in seconds
CacheSeconds == 3600

\* providers.join(",")
JoinComma(l) ==
  CASE l = <<>> -> ""
    [] l = <<"AWS">> -> "AWS"
    [] l = <<"Azure">> -> "Azure"
    [] l = <<"AWS", "Azure">> -> "AWS,Azure"
    [] l = <<"Azure", "AWS">> -> "Azure,AWS"
    [] l = <<"AWS,Azure">> -> "AWS,Azure"
    [] OTHER -> "?"

\* a string as the pieces between which its colons stand
Pieces(s) ==
  CASE s = "" -> <<>>
    [] s = "us:all" -> <<"us", ":", "all">>
    [] s = "all:all" -> <<"all", ":", "all">>
    [] OTHER -> <<s>>

\* `trends:${providers.join(",")}:${region || "all"}:${service || "all"}:${months}`,
\* the string as its pieces
CacheKeyOf(filter) ==
  <<"trends", ":">> \o Pieces(JoinComma(filter.providers))
    \o <<":">> \o Pieces(OrElse(filter.region, "all"))
    \o <<":">> \o Pieces(OrElse(filter.service, "all"))
    \o <<":", filter.months>>

\* n / d (d # 0) rounded to the nearest integer, halves away from zero
RoundDiv(n, d) ==
  LET num == IF d < 0 THEN 0 - n ELSE n
      den == Abs(d)
      q   == (2 * Abs(num) + den) \div (2 * den)
  IN  IF num < 0 THEN 0 - q ELSE q

NaN == [nan |-> TRUE, hundredths |-> 0]

\* 2^k modulo p
RECURSIVE PowMod2(_, _)
PowMod2(k, p) == IF k = 0 THEN 1 % p ELSE (2 * PowMod2(k - 1, p)) % p

\* the binary exponent b of d / p (d, p > 0): 2^b <= d / p < 2^(b + 1)
RECURSIVE Exponent(_, _)
Exponent(d, p) ==
  IF d < p THEN Exponent(2 * d, p) - 1
  ELSE IF d >= 2 * p THEN Exponent(d, 2 * p) + 1
  ELSE 0

\* change = (d / p) * 100 in double arithmetic (d, p > 0), when 100 * d / p
\* lies exactly between two hundredths: TRUE when the double is below that
\* value.  The quotient is rounded to 53 bits (nearest, ties to even) and
\* its error, rho / pn units of the last place, is multiplied by 100; the
\* product is rounded to 53 bits again, dropping 6 or 7 bits, and stays
\* below when the error is over half of what is dropped.
DoubleBelowTie(d, p) ==
  LET b    == Exponent(d, p)
      dn   == IF b < 0 THEN d * 2^(0 - b) ELSE d
      pn   == IF b > 0 THEN p * 2^b ELSE p
      r    == ((dn % pn) * PowMod2(52, pn)) % pn
      low  == (2 * (((dn % pn) * PowMod2(51, pn)) % pn)) \div pn
      up   == 2 * r > pn \/ (2 * r = pn /\ low = 1)
      rho  == IF up THEN r - pn ELSE r
      bits7 == 100 * dn > 128 * pn \/ (100 * dn = 128 * pn /\ rho <= 0)
  IN  ~bits7 /\ 100 * rho > 32 * pn

\* (((cur - prev) / prev) * 100).toFixed(2): the hundredth nearest to the
\* double, the larger in magnitude of two equally near
ToFixed2(cur, prev) ==
  IF prev = 0 THEN NaN
  ELSE LET d == Abs(cur - prev)
           p == Abs(prev)
           n == IF 2 * ((10000 * d) % p) = p
                THEN (10000 * d) \div p + (IF DoubleBelowTie(d, p) THEN 0 ELSE 1)
                ELSE RoundDiv(10000 * d, p)
       IN  [nan |-> FALSE,
            hundredths |-> IF (cur - prev < 0) # (prev < 0) THEN 0 - n ELSE n]

\* the rows of the response: each row of the query with its percent_change,
\* prev = arr[i - 1]?.total_cost || r.total_cost
PercentChange(rows) ==
  [i \in DOMAIN rows |->
     LET prev == IF i > 1 /\ rows[i - 1].total_cost # 0
                 THEN rows[i - 1].total_cost ELSE rows[i].total_cost
     IN  [provider |-> rows[i].provider, month |-> rows[i].month,
          total_cost |-> rows[i].total_cost,
          percent_change |-> ToFixed2(rows[i].total_cost, prev)]]

\* every entry is returned, expired or not
CacheLookup_NoExpiry(store, key, t) ==
  LET live == {e \in store : e.key = key}
  IN  IF live = {} THEN <<>> ELSE <<(CHOOSE e \in live : TRUE).value>>

\* redis.get(key) at time t: <<value>> of the entry set less than
\* CacheSeconds ago, <<>> (null) without one
CacheLookup(store, key, t) ==
  LET live == {e \in store : e.key = key /\ (t - e.setAt) * 3600 < CacheSeconds}
  IN  IF live = {} THEN <<>> ELSE <<(CHOOSE e \in live : TRUE).value>>

\* redis.setEx(key, CacheSeconds, value) at time t
CacheStore(store, key, value, t) ==
  {e \in store : e.key # key} \cup {[key |-> key, value |-> value, setAt |-> t]}

TrendCalls == 1..MaxCalls

NoFilter == [providers |-> <<>>, region |-> "", service |-> "", months |-> 0]

\* a request not made yet
NoCall ==
  [pc |-> "idle", filter |-> NoFilter, after |-> {}, getAt |-> 0 - 1,
   got |-> "none", queried |-> FALSE, rows |-> <<>>, json |-> <<>>,
   setAt |-> 0 - 1, failed |-> "none", response |-> NoResponse]

\* new Response(json, {status: 200}) and new Response(cached)
TrendResponse(json) == [kind |-> "json", status |-> 200, trends |-> json]

\* the catch block of GET
TrendError == [kind |-> "json", status |-> 500, error |-> "message"]

\* the outcomes of a cache command: it fails when the client is not
\* connected, and may fail when it is
CacheOutcomes == IF redis.up THEN BOOLEAN ELSE {FALSE}

\* GET is called with a filter: it computes the cache key and awaits redis.get
TrendGet(c, filter) ==
  /\ trends[c].pc = "idle"
  /\ trends' = [trends EXCEPT ![c] =
       [NoCall EXCEPT !.pc = "get", !.filter = filter,
                      !.after = {d \in TrendCalls : trends[d].pc = "done"}]]
  /\ UNCHANGED <<vendor, now, cloudScan, pc, providers, scanPromises, promise,
                 response, log, connector, scanResult, redis,
                 cron, page>>

\* redis.get returns or rejects: a cached payload is returned as it is,
\* a rejection ends in the catch block, null goes on to the query
CacheGetReturns(c) ==
  /\ trends[c].pc = "get"
  /\ \E ok \in CacheOutcomes :
       LET cached == CacheLookup(redis.store, CacheKeyOf(trends[c].filter), now)
       IN  trends' = [trends EXCEPT ![c] =
             IF ~ok
             THEN [@ EXCEPT !.pc = "done", !.getAt = now, !.failed = "get",
                            !.response = TrendError]
             ELSE IF cached # <<>>
             THEN [@ EXCEPT !.pc = "done", !.getAt = now, !.got = "hit",
                            !.response = TrendResponse(cached[1])]
             ELSE [@ EXCEPT !.pc = "query", !.getAt = now, !.got = "miss"]]
  /\ UNCHANGED <<vendor, now, cloudScan, pc, providers, scanPromises, promise,
                 response, log, connector, scanResult, redis,
                 cron, page>>

\* a failed query leaves an empty payload under the key
QueryReturns_StoresFailure(c, rows) ==
  /\ trends[c].pc = "query"
  /\ \E ok \in BOOLEAN :
       IF ~ok
       THEN /\ trends' = [trends EXCEPT ![c] =
                 [@ EXCEPT !.pc = "done", !.queried = TRUE, !.failed = "query",
                           !.response = TrendError]]
            /\ redis' = [redis EXCEPT !.store =
                 CacheStore(@, CacheKeyOf(trends[c].filter), <<>>, now)]
       ELSE /\ trends' = [trends EXCEPT ![c] =
                 [@ EXCEPT !.pc = "set", !.queried = TRUE, !.rows = rows,
                           !.json = PercentChange(rows)]]
            /\ redis' = redis
  /\ UNCHANGED <<vendor, now, cloudScan, pc, providers, scanPromises, promise,
                 response, log, connector, scanResult,
                 cron, page>>

\* the aggregate query returns rows or rejects; the handler computes the
\* percentage changes and awaits redis.setEx
QueryReturns(c, rows) ==
  /\ trends[c].pc = "query"
  /\ \E ok \in BOOLEAN :
       trends' = [trends EXCEPT ![c] =
         IF ~ok
         THEN [@ EXCEPT !.pc = "done", !.queried = TRUE, !.failed = "query",
                        !.response = TrendError]
         ELSE [@ EXCEPT !.pc = "set", !.queried = TRUE, !.rows = rows,
                        !.json = PercentChange(rows)]]
  /\ UNCHANGED <<vendor, now, cloudScan, pc, providers, scanPromises, promise,
                 response, log, connector, scanResult, redis,
                 cron, page>>

\* redis.setEx returns or rejects; the handler responds
CacheSetReturns(c) ==
  /\ trends[c].pc = "set"
  /\ \E ok \in CacheOutcomes :
       IF ok
       THEN /\ redis' = [redis EXCEPT !.store =
                 CacheStore(@, CacheKeyOf(trends[c].filter), trends[c].json, now)]
            /\ trends' = [trends EXCEPT ![c] =
                 [@ EXCEPT !.pc = "done", !.setAt = now,
                           !.response = TrendResponse(trends[c].json)]]
       ELSE /\ redis' = redis
            /\ trends' = [trends EXCEPT ![c] =
                 [@ EXCEPT !.pc = "done", !.failed = "set", !.response = TrendError]]
  /\ UNCHANGED <<vendor, now, cloudScan, pc, providers, scanPromises, promise,
                 response, log, connector, scanResult,
                 cron, page>>

\* providers and monthly totals of the scan history the trend query reads
TrendProviders == {"AWS", "Azure"}
TrendTotals == {0, 100, 150}

\* the rows of one month: GROUP BY provider, month gives each provider at
\* most one row, in either order
MonthRows(m) ==
  { <<>> }
  \cup { <<[provider |-> p, month |-> m, total_cost |-> t]>> :
           p \in TrendProviders, t \in TrendTotals }
  \cup { <<[provider |-> pq[1], month |-> m, total_cost |-> t],
           [provider |-> pq[2], month |-> m, total_cost |-> u]>> :
           pq \in {x \in TrendProviders \X TrendProviders : x[1] # x[2]},
           t \in TrendTotals, u \in TrendTotals }

\* the answers of the aggregate query over months 1..m: ORDER BY month
RECURSIVE AnswersUpTo(_)
AnswersUpTo(m) ==
  IF m = 0 THEN { <<>> }
  ELSE {a \o b : a \in AnswersUpTo(m - 1), b \in MonthRows(m)}

\* one provider's totals 100, 150, 120 over three months
ThreeMonths ==
  << [provider |-> "AWS", month |-> 1, total_cost |-> 100],
     [provider |-> "AWS", month |-> 2, total_cost |-> 150],
     [provider |-> "AWS", month |-> 3, total_cost |-> 120] >>

\* one provider's totals 160, 183, 63 over three months: the changes
\* 14.375 and -65.57...
TieMonths ==
  << [provider |-> "AWS", month |-> 1, total_cost |-> 160],
     [provider |-> "AWS", month |-> 2, total_cost |-> 183],
     [provider |-> "AWS", month |-> 3, total_cost |-> 63] >>

TrendAnswers == AnswersUpTo(MaxMonths) \cup {ThreeMonths, TieMonths}

\* a request without provider, region or service parameter: months is 6
AllFilter == [providers |-> <<>>, region |-> "", service |-> "", months |-> 6]

\* one GET over any scan history, the cache connected and empty
InitTrendCalc ==
  /\ vendor = [p \in Adapters |-> CHOOSE a \in Accounts(p) : ~a.configured]
  /\ now = 0
  /\ cloudScan = EmptyBag
  /\ pc = [c \in Callers |-> "idle"]
  /\ providers = [c \in Callers |-> <<>>]
  /\ scanPromises = [c \in Callers |-> <<>>]
  /\ promise = [c \in Callers |-> [p \in Adapters |-> NoPromise]]
  /\ response = [c \in Callers |-> NoResponse]
  /\ log = <<>>
  /\ connector = NoConnector
  /\ scanResult = NoScanResult
  /\ redis = [up |-> TRUE, store |-> {}]
  /\ trends = [c \in TrendCalls |-> NoCall]
  /\ cron = NoCron
  /\ page = NoPage

CalcGet == TrendGet(1, AllFilter)
CalcCacheGet == CacheGetReturns(1)
CalcQuery == \E rows \in TrendAnswers : QueryReturns(1, rows)
CalcCacheSet == CacheSetReturns(1)

NextTrendCalc ==
  \/ CalcGet
  \/ CalcCacheGet
  \/ CalcQuery
  \/ CalcCacheSet

TrendCalcSpec == InitTrendCalc /\ [][NextTrendCalc]_vars

\* the filters of the requests: the same two providers in the two orders
\* the chart's toggle buttons can produce
TrendFilters ==
  {[providers |-> l, region |-> "", service |-> "", months |-> 6] :
     l \in {<<"AWS", "Azure">>, <<"Azure", "AWS">>}}

\* what the aggregate query answers, as the scan history grows
CacheAnswers ==
  { << [provider |-> "AWS", month |-> 1, total_cost |-> 100] >>,
    << [provider |-> "AWS", month |-> 1, total_cost |-> 100],
       [provider |-> "AWS", month |-> 2, total_cost |-> 150] >> }

\* the module is loaded: createClient, and connect() succeeds or fails
InitTrend ==
  /\ vendor = [p \in Adapters |-> CHOOSE a \in Accounts(p) : ~a.configured]
  /\ now = 0
  /\ cloudScan = EmptyBag
  /\ pc = [c \in Callers |-> "idle"]
  /\ providers = [c \in Callers |-> <<>>]
  /\ scanPromises = [c \in Callers |-> <<>>]
  /\ promise = [c \in Callers |-> [p \in Adapters |-> NoPromise]]
  /\ response = [c \in Callers |-> NoResponse]
  /\ log = <<>>
  /\ connector = NoConnector
  /\ scanResult = NoScanResult
  /\ redis \in {[up |-> u, store |-> {}] : u \in BOOLEAN}
  /\ trends = [c \in TrendCalls |-> NoCall]
  /\ cron = NoCron
  /\ page = NoPage

\* requests are numbered in the order they arrive
TrendRequest ==
  \E c \in TrendCalls : \E filter \in TrendFilters :
    /\ IF c = 1 THEN TRUE ELSE trends[c - 1].pc # "idle"
    /\ TrendGet(c, filter)
TrendCacheGet == \E c \in TrendCalls : CacheGetReturns(c)
TrendQuery == \E c \in TrendCalls : \E rows \in CacheAnswers : QueryReturns(c, rows)
TrendCacheSet == \E c \in TrendCalls : CacheSetReturns(c)

NextTrend ==
  \/ TrendRequest
  \/ TrendCacheGet
  \/ TrendQuery
  \/ TrendCacheSet
  \/ Clock

TrendSpec == InitTrend /\ [][NextTrend]_vars

\* filters of any query string: a provider parameter that holds a comma, a
\* region or service parameter that is absent, is the word "all", or holds
\* a colon
KeyFilters ==
  {[providers |-> l, region |-> r, service |-> v, months |-> n] :
     l \in {<<"AWS", "Azure">>, <<"AWS,Azure">>},
     r \in {"", "all", "us", "us:all"},
     v \in {"", "all", "all:all"},
     n \in {6}}

\* requests with these filters, the cache connected
InitKey ==
  /\ InitTrend
  /\ redis.up

\* requests are numbered in the order they arrive; one may arrive while
\* another awaits the cache or the query
KeyRequest ==
  \E c \in TrendCalls : \E filter \in KeyFilters :
    /\ IF c = 1 THEN TRUE ELSE trends[c - 1].pc # "idle"
    /\ TrendGet(c, filter)

NextKey ==
  \/ KeyRequest
  \/ TrendCacheGet
  \/ TrendQuery
  \/ TrendCacheSet

KeySpec == InitKey /\ [][NextKey]_vars

(***************************************************************************)
(* The trend endpoint over a scan history that grows: the aggregate query  *)
(* is computed from the cloud_scan table, and saveScanResults adds rows    *)
(* between the requests.  The batches written hold whole amounts.          *)
(***************************************************************************)
\* the hours of a month of thirty days
HoursPerMonth == 720

\* DATE_TRUNC('month', scanned_at): the month a stamp, in hours, falls in
DateTruncMonth(stamp) == stamp \div HoursPerMonth

\* a + b on reduced fractions
FracAdd(a, b) == Quot(a.num * b.den + b.num * a.den, a.den * b.den)

\* SUM(cost_this_month) over the rows rs of the table, each counted as
\* often as the table holds it
RECURSIVE SqlSum(_, _)
SqlSum(table, rs) ==
  IF rs = {} THEN Zero
  ELSE LET r == CHOOSE x \in rs : TRUE
       IN  FracAdd(Quot(r.costThisMonth.num * CopiesIn(r, table), r.costThisMonth.den),
                   SqlSum(table, rs \ {r}))

\* the WHERE clause of the query at time t
Selected(table, filter, t) ==
  {r \in BagToSet(table) :
     /\ r.scannedAt >= t - filter.months * HoursPerMonth
     /\ filter.providers # <<>> => r.provider \in Range(filter.providers)
     /\ filter.region # "" => r.region = filter.region
     /\ filter.service # "" => r.service = filter.service}

\* GROUP BY provider, month with SUM(cost_this_month) AS total_cost
AggregateGroups(table, filter, t) ==
  LET sel == Selected(table, filter, t)
  IN  {[provider |-> g[1], month |-> g[2],
        total_cost |-> SqlSum(table, {r \in sel : r.provider = g[1]
                                        /\ DateTruncMonth(r.scannedAt) = g[2]}).num] :
         g \in {<<r.provider, DateTruncMonth(r.scannedAt)>> : r \in sel}}

\* ORDER BY month: the groups in every order that is ascending in month
AggregateAnswers(table, filter, t) ==
  LET groups == AggregateGroups(table, filter, t)
      n == Cardinality(groups)
  IN  {a \in [1..n -> groups] :
         /\ \A i, j \in 1..n : i # j => a[i] # a[j]
         /\ \A i, j \in 1..n : i < j => a[i].month <= a[j].month}

\* the responses of the handler when it runs the query on the table at t
DirectResponses(table, filter, t) ==
  {TrendResponse(PercentChange(rows)) : rows \in AggregateAnswers(table, filter, t)}

\* the filters of the requests: none, and one provider
HistoryFilters ==
  {[providers |-> l, region |-> "", service |-> "", months |-> 6] :
     l \in {<<>>, <<"AWS">>}}

\* the batches of adapter p that hold assets, all with whole amounts
HistoryBatches(p) ==
  {b \in Batches(p) :
     b # <<>> /\ \A i \in DOMAIN b : b[i].costThisMonth.den = 1}

\* the module is loaded and connect() has succeeded; the table is empty
InitHistory ==
  /\ vendor = [p \in Adapters |-> CHOOSE a \in Accounts(p) : ~a.configured]
  /\ now = 0
  /\ cloudScan = EmptyBag
  /\ pc = [c \in Callers |-> "idle"]
  /\ providers = [c \in Callers |-> <<>>]
  /\ scanPromises = [c \in Callers |-> <<>>]
  /\ promise = [c \in Callers |-> [p \in Adapters |-> NoPromise]]
  /\ response = [c \in Callers |-> NoResponse]
  /\ log = <<>>
  /\ connector = NoConnector
  /\ scanResult = NoWrites
  /\ redis = [up |-> TRUE, store |-> {}]
  /\ trends = [c \in TrendCalls |-> NoCall]
  /\ cron = NoCron
  /\ page = NoPage

HistoryRequest ==
  \E c \in TrendCalls : \E filter \in HistoryFilters :
    /\ IF c = 1 THEN TRUE ELSE trends[c - 1].pc # "idle"
    /\ TrendGet(c, filter)
HistoryCacheGet == \E c \in TrendCalls : CacheGetReturns(c)
HistoryQuery ==
  \E c \in TrendCalls :
    \E rows \in AggregateAnswers(cloudScan, trends[c].filter, now) :
      QueryReturns(c, rows)
HistoryCacheSet == \E c \in TrendCalls : CacheSetReturns(c)
HistoryWrite ==
  \E p \in {"aws", "azure"} : \E assets \in HistoryBatches(p) :
    Record(p, assets, "manual")

NextHistory ==
  \/ HistoryRequest
  \/ HistoryCacheGet
  \/ HistoryQuery
  \/ HistoryCacheSet
  \/ HistoryWrite
  \/ RecordReturns
  \/ Clock

HistorySpec == InitHistory /\ [][NextHistory]_vars

(***************************************************************************)
(* The scheduler: node-cron fires the daily and the weekly callback; each  *)
(* firing calls scanAllClouds once.  The runs of a job are numbered in the *)
(* order of its ticks.  Only the AWS credentials are in the environment;   *)
(* the clock moves only between the rows a run builds.                     *)
(***************************************************************************)
Runs == Jobs \X (1..MaxTicks)

InitScheduler ==
  /\ vendor \in {v \in [Adapters -> UNION {Accounts(p) : p \in Adapters}] :
                   /\ v["aws"] \in AWSAccounts /\ v["aws"].configured
                   /\ v["aws"].total # <<>>
                   /\ v["azure"] \in AzureAccounts /\ ~v["azure"].configured
                   /\ v["gcp"] \in GCPAccounts /\ ~v["gcp"].configured}
  /\ now = 0
  /\ cloudScan = EmptyBag
  /\ pc = [r \in Runs |-> "idle"]
  /\ providers = [r \in Runs |-> <<>>]
  /\ scanPromises = [r \in Runs |-> <<>>]
  /\ promise = [r \in Runs |-> [p \in Adapters |-> NoPromise]]
  /\ response = [r \in Runs |-> NoResponse]
  /\ log = <<>>
  /\ connector = NoConnector
  /\ scanResult = NoScanResult
  /\ redis = NoRedis
  /\ trends = NoTrends
  /\ cron = [ticks |-> [job \in Jobs |-> 0]]
  /\ page = NoPage

\* node-cron fires the callback of a job: cron.schedule(..., async () => {
\* await scanAllClouds(job) })
SchedulerTick(job) ==
  /\ cron.ticks["daily"] + cron.ticks["weekly"] < MaxTicks
  /\ cron' = [cron EXCEPT !.ticks[job] = @ + 1]
  /\ CronTick(<<job, cron.ticks[job] + 1>>)
  /\ UNCHANGED <<log, connector, scanResult, redis, trends, page>>

SchedulerFires == \E job \in Jobs : SchedulerTick(job)
SchedulerDone ==
  /\ \E r \in Runs : ScanAllCloudsReturns(r)
  /\ UNCHANGED <<log, connector, scanResult, redis, trends, cron, page>>
SchedulerListing ==
  /\ \E r \in Runs : \E p \in Adapters : ListingReturns(r, p)
  /\ UNCHANGED <<log, connector, scanResult, redis, trends, cron, page>>
SchedulerCost ==
  /\ \E r \in Runs : \E p \in Adapters : CostReturns(r, p)
  /\ UNCHANGED <<log, connector, scanResult, redis, trends, cron, page>>
SchedulerSave ==
  /\ \E r \in Runs : \E p \in Adapters : SaveReturns(r, p)
  /\ UNCHANGED <<log, connector, scanResult, redis, trends, cron, page>>
NextScheduler ==
  \/ SchedulerFires
  \/ SchedulerDone
  \/ SchedulerListing
  \/ SchedulerCost
  \/ SchedulerSave

SchedulerSpec == InitScheduler /\ [][NextScheduler]_vars

(***************************************************************************)
(* Credentials: the check each aggregate adapter makes on its environment  *)
(* variables, and the check each per-provider endpoint (POST               *)
(* /api/cloud/<provider>/scan) makes on the fields of its request body.    *)
(* A field is "" when it is absent or empty.                               *)
(***************************************************************************)
FieldValues == {"", "x"}

\* process.env as each adapter reads it
AdapterEnvs(p) ==
  CASE p = "aws" ->
         [accessKeyId : FieldValues, secretAccessKey : FieldValues, region : FieldValues]
    [] p = "azure" ->
         [clientId : FieldValues, clientSecret : FieldValues,
          tenantId : FieldValues, subscriptionId : FieldValues]
    [] p = "gcp" -> [projectId : FieldValues, keyFilename : FieldValues]

\* the adapter's check passes: it does not throw "... not configured"
EnvConfigured(p, env) ==
  CASE p = "aws" -> env.accessKeyId # "" /\ env.secretAccessKey # ""
    [] p = "azure" -> /\ env.clientId # "" /\ env.clientSecret # ""
                      /\ env.tenantId # "" /\ env.subscriptionId # ""
    [] p = "gcp" -> env.projectId # ""

\* the adapter function is called with env: the credential check, then the
\* first SDK call
DispatchWith(p, env) ==
  IF EnvConfigured(p, env)
  THEN [st |-> "listing", cause |-> "", stamps |-> <<>>]
  ELSE [st |-> "rejected", cause |-> "config", stamps |-> <<>>]

\* the credentials string of a GCP request: absent, JSON, or not JSON
CredentialsJson == {"", "{}", "x"}

\* request bodies of the endpoint of p: no body (request.json() rejects),
\* the JSON value null, or an object with these fields
EndpointBodies(p) ==
  {[kind |-> "empty"], [kind |-> "null"]}
  \cup {[kind |-> "object", fields |-> f] :
          f \in CASE p = "aws" ->
                       [accessKeyId : FieldValues, secretAccessKey : FieldValues,
                        region : FieldValues]
                  [] p = "azure" ->
                       [clientId : FieldValues, clientSecret : FieldValues,
                        tenantId : FieldValues, subscriptionId : FieldValues]
                  [] p = "gcp" ->
                       [projectId : FieldValues, keyFilename : FieldValues,
                        credentials : CredentialsJson]}

\* the endpoint's check on the destructured fields passes
EndpointRequired(p, f) ==
  CASE p = "aws" -> f.accessKeyId # "" /\ f.secretAccessKey # ""
    [] p = "azure" -> /\ f.clientId # "" /\ f.clientSecret # ""
                      /\ f.tenantId # "" /\ f.subscriptionId # ""
    [] p = "gcp" -> f.projectId # "" /\ (f.keyFilename # "" \/ f.credentials # "")

\* the 400 response of the endpoint of p
MissingCredentials(p) ==
  [kind |-> "json", status |-> 400,
   error |-> <<"Missing required credentials", ProviderName(p)>>]

\* the catch block of the endpoint of p
ScanFailed(p) ==
  [kind |-> "json", status |-> 500,
   error |-> <<"Failed to scan resources", ProviderName(p)>>]

\* the 200 response of the endpoint
ScanSucceeded == [kind |-> "json", status |-> 200, success |-> TRUE]

\* the fields are handed to the connector without the check
ScanEndpoint_Unchecked(p, body) ==
  IF body.kind \in {"empty", "null"}
  THEN [pc |-> "done", provider |-> p, body |-> body, sdk |-> FALSE,
        response |-> ScanFailed(p)]
  ELSE IF p = "gcp" /\ body.fields.credentials = "x"
  THEN [pc |-> "done", provider |-> p, body |-> body, sdk |-> FALSE,
        response |-> ScanFailed(p)]
  ELSE [pc |-> "scanning", provider |-> p, body |-> body, sdk |-> TRUE,
        response |-> NoResponse]

\* POST of the endpoint of p up to `await Promise.all([scanAssets(),
\* getCostData()])`: what the call has become
ScanEndpoint(p, body) ==
  IF body.kind \in {"empty", "null"}
  THEN [pc |-> "done", provider |-> p, body |-> body, sdk |-> FALSE,
        response |-> ScanFailed(p)]
  ELSE IF ~EndpointRequired(p, body.fields)
  THEN [pc |-> "done", provider |-> p, body |-> body, sdk |-> FALSE,
        response |-> MissingCredentials(p)]
  ELSE IF p = "gcp" /\ body.fields.credentials = "x"
  THEN [pc |-> "done", provider |-> p, body |-> body, sdk |-> FALSE,
        response |-> ScanFailed(p)]
  ELSE [pc |-> "scanning", provider |-> p, body |-> body, sdk |-> TRUE,
        response |-> NoResponse]

\* no request and no adapter call yet; the vendors answer valid credentials
InitCredential ==
  /\ vendor = [p \in Adapters |->
                 CHOOSE a \in Accounts(p) :
                   a.configured /\ (p = "gcp" => a.billingAccountName # "")]
  /\ now = 0
  /\ cloudScan = EmptyBag
  /\ pc = [c \in Callers |-> "idle"]
  /\ providers = [c \in Callers |-> <<>>]
  /\ scanPromises = [c \in Callers |-> <<>>]
  /\ promise = [c \in Callers |-> [p \in Adapters |-> NoPromise]]
  /\ response = [c \in Callers |-> NoResponse]
  /\ log = <<>>
  /\ connector = [pc |-> "idle"]
  /\ scanResult = [pc |-> "idle"]
  /\ redis = NoRedis
  /\ trends = NoTrends
  /\ cron = NoCron
  /\ page = NoPage

\* one aggregate adapter is called with some environment
AdapterCalled ==
  /\ scanResult.pc = "idle"
  /\ \E p \in Adapters : \E env \in AdapterEnvs(p) :
       /\ scanResult' = [pc |-> "called", adapter |-> p, env |-> env]
       /\ promise' = [promise EXCEPT !["post"][p] = DispatchWith(p, env)]
  /\ UNCHANGED <<vendor, now, cloudScan, pc, providers, scanPromises, response,
                 log, connector, redis, trends, cron, page>>

\* one per-provider endpoint receives a request
EndpointPost ==
  /\ connector.pc = "idle"
  /\ \E p \in Adapters : \E body \in EndpointBodies(p) :
       connector' = ScanEndpoint(p, body)
  /\ UNCHANGED <<vendor, now, cloudScan, pc, providers, scanPromises, promise,
                 response, log, scanResult, redis, trends, cron, page>>

\* Promise.all of the connector's scanAssets and getCostData settles
EndpointScanReturns ==
  /\ connector.pc = "scanning"
  /\ \E ok \in BOOLEAN :
       connector' = [connector EXCEPT
                       !.pc = "done",
                       !.response = IF ok THEN ScanSucceeded
                                    ELSE ScanFailed(connector.provider)]
  /\ UNCHANGED <<vendor, now, cloudScan, pc, providers, scanPromises, promise,
                 response, log, scanResult, redis, trends, cron, page>>

NextCredential ==
  \/ AdapterCalled
  \/ EndpointPost
  \/ EndpointScanReturns
  \/ Listing
  \/ Billing
  \/ Cost
  \/ Save

CredentialSpec == InitCredential /\ [][NextCredential]_vars

(***************************************************************************)
(* The dashboard page (CloudAssetTracker): its React state, the two        *)
(* effects that load and save the asset list, localStorage, and the scan   *)
(* requests it sends.  An asset is its id, provider and notes; a step is   *)
(* one task of the page: a render, a flush of the pending effects, an      *)
(* event handler, or the continuation of a fetch.                          *)
(***************************************************************************)
PageProviders == {"AWS", "Azure", "GCP"}

\* `${selectedProvider.toLowerCase()}-mock-${n}`
MockId(p, n) ==
  CASE p = "AWS"   -> IF n = 1 THEN "aws-mock-1" ELSE "aws-mock-2"
    [] p = "Azure" -> IF n = 1 THEN "azure-mock-1" ELSE "azure-mock-2"
    [] p = "GCP"   -> IF n = 1 THEN "gcp-mock-1" ELSE "gcp-mock-2"

\* fallbackAssets of executeCloudScan's catch block
FallbackAssets(p) ==
  << [id |-> MockId(p, 1), provider |-> p, notes |-> "mock"],
     [id |-> MockId(p, 2), provider |-> p, notes |-> "mock"] >>

\* demoAssets and demoCostSummary of loadDemoData
DemoAssets ==
  << [id |-> "demo-aws-1", provider |-> "AWS", notes |-> "demo"],
     [id |-> "demo-aws-2", provider |-> "AWS", notes |-> "demo"],
     [id |-> "demo-aws-3", provider |-> "AWS", notes |-> "demo"],
     [id |-> "demo-azure-1", provider |-> "Azure", notes |-> "demo"],
     [id |-> "demo-azure-2", provider |-> "Azure", notes |-> "demo"],
     [id |-> "demo-gcp-1", provider |-> "GCP", notes |-> "demo"],
     [id |-> "demo-gcp-2", provider |-> "GCP", notes |-> "demo"] >>

DemoCostSummary == [source |-> "demo"]

\* the asset handleAddAsset appends: id `manual-${Date.now()}`, the clock
\* having moved on since an earlier visit
ManualAsset == [id |-> "manual-1", provider |-> "Manual", notes |-> ""]
StoredAsset == [id |-> "manual-0", provider |-> "Manual", notes |-> ""]

\* what a fetch of the page ends in: a 200 response with success true, a
\* 200 response with success false, a response that is not ok, a rejection
FetchOutcomes == {"success", "partial", "http", "network"}

\* data.assets of a 200 response to a scan of provider p
ResponseAssets(p) == << [id |-> "i-1", provider |-> p] >>

\* data.costSummary of a 200 response
ResponseCostSummary == [source |-> "scan"]

\* localStorage without the key, and with a list stored under it
NoItem == [present |-> FALSE, value |-> <<>>]
Item(list) == [present |-> TRUE, value |-> list]

\* the lists an earlier visit may have left under 'cloudAssets'
StoredLists == {<<>>, <<StoredAsset>>}

\* useState initial values
InitialState ==
  [assets |-> <<>>, costSummary |-> <<>>, isScanning |-> FALSE,
   showCredentialsModal |-> FALSE, selectedProvider |-> "", error |-> ""]

\* the page is not open
Unmounted(storage, started, edits) ==
  [pc |-> "unmounted", state |-> InitialState, rendered |-> <<>>,
   pending |-> FALSE, effects |-> <<>>, requests |-> <<>>,
   storage |-> storage, atMount |-> NoItem, touched |-> FALSE,
   started |-> started, edits |-> edits]

\* the pending effects run in order: "load" reads the stored list into the
\* state, "save" stores the list of the render the effect belongs to
RECURSIVE RunEffects(_, _)
RunEffects(effects, pg) ==
  IF effects = <<>> THEN [pg EXCEPT !.effects = <<>>]
  ELSE RunEffects(Tail(effects),
         IF Head(effects) = "load"
         THEN IF pg.storage.present
              THEN [pg EXCEPT !.state.assets = pg.storage.value, !.pending = TRUE]
              ELSE pg
         ELSE [pg EXCEPT !.storage = Item(pg.rendered)])

\* nothing of the page is waiting to run: events are handled in this state
Quiescent == page.pc = "mounted" /\ ~page.pending /\ page.effects = <<>>

PageUnchanged ==
  UNCHANGED <<vendor, now, cloudScan, pc, providers, scanPromises, promise,
              response, log, connector, scanResult, redis, trends, cron>>

InitPage ==
  /\ vendor = [p \in Adapters |-> CHOOSE a \in Accounts(p) : ~a.configured]
  /\ now = 0
  /\ cloudScan = EmptyBag
  /\ pc = [c \in Callers |-> "idle"]
  /\ providers = [c \in Callers |-> <<>>]
  /\ scanPromises = [c \in Callers |-> <<>>]
  /\ promise = [c \in Callers |-> [p \in Adapters |-> NoPromise]]
  /\ response = [c \in Callers |-> NoResponse]
  /\ log = <<>>
  /\ connector = NoConnector
  /\ scanResult = NoScanResult
  /\ redis = NoRedis
  /\ trends = NoTrends
  /\ cron = NoCron
  /\ page \in {Unmounted(st, 0, 0) : st \in {NoItem} \cup {Item(l) : l \in StoredLists}}

\* the page is opened: the first render, with both effects pending
Mount ==
  /\ page.pc = "unmounted"
  /\ page' = [page EXCEPT !.pc = "mounted", !.effects = <<"load", "save">>,
                          !.atMount = page.storage]
  /\ PageUnchanged

\* the effects of the last render run
FlushEffects ==
  /\ page.pc = "mounted"
  /\ page.effects # <<>>
  /\ page' = RunEffects(page.effects, page)
  /\ PageUnchanged

\* the state has changed: the page renders again, and the save effect of
\* the new asset list is pending
Render ==
  /\ page.pc = "mounted"
  /\ page.pending
  /\ page.effects = <<>>
  /\ page' = [page EXCEPT !.rendered = page.state.assets, !.pending = FALSE,
                          !.effects = <<"save">>]
  /\ PageUnchanged

\* the tab is closed or reloaded: localStorage is all that remains
Unload ==
  /\ page.pc = "mounted"
  /\ page' = Unmounted(page.storage, page.started, page.edits)
  /\ PageUnchanged

\* handleAddAsset with the form filled in
AddAsset ==
  /\ Quiescent
  /\ page.edits < MaxEdits
  /\ page' = [page EXCEPT !.state.assets = Append(page.rendered, ManualAsset),
                          !.pending = TRUE, !.touched = TRUE, !.edits = @ + 1]
  /\ PageUnchanged

\* handleDeleteAsset(id) from a row of the table
DeleteAsset ==
  /\ Quiescent
  /\ page.edits < MaxEdits
  /\ \E i \in DOMAIN page.rendered :
       page' = [page EXCEPT
                  !.state.assets = SelectIdx(page.rendered,
                                     LAMBDA j : page.rendered[j].id # page.rendered[i].id),
                  !.pending = TRUE, !.touched = TRUE, !.edits = @ + 1]
  /\ PageUnchanged

\* what loadDemoData makes of the state
loadDemoData(state) ==
  [state EXCEPT !.assets = @ \o DemoAssets, !.costSummary = <<DemoCostSummary>>]

\* the Load Demo Data button
LoadDemoClicked ==
  /\ Quiescent
  /\ ~page.state.isScanning
  /\ page.edits < MaxEdits
  /\ page' = [page EXCEPT !.state = loadDemoData(@), !.pending = TRUE,
                          !.touched = TRUE, !.edits = @ + 1]
  /\ PageUnchanged

\* handleScanCloud(p) from a Scan <provider> button
ScanCloudClicked ==
  /\ Quiescent
  /\ ~page.state.isScanning
  /\ \E p \in PageProviders :
       page' = [page EXCEPT !.state.selectedProvider = p,
                            !.state.showCredentialsModal = TRUE]
  /\ PageUnchanged

\* the Cancel button of the credentials modal
ModalCancelled ==
  /\ Quiescent
  /\ page.state.showCredentialsModal
  /\ page' = [page EXCEPT !.state.showCredentialsModal = FALSE]
  /\ PageUnchanged

\* executeCloudScan from the modal's Scan button, the credentials filled in,
\* up to `await fetch(endpoint, ...)`
ModalScanClicked ==
  /\ Quiescent
  /\ page.state.showCredentialsModal
  /\ page.state.selectedProvider # ""
  /\ page.started < MaxScans
  /\ page' = [page EXCEPT
                !.state.isScanning = TRUE,
                !.state.showCredentialsModal = FALSE,
                !.requests = Append(@, [kind |-> "provider",
                                        provider |-> page.state.selectedProvider,
                                        stage |-> "fetch", outcome |-> ""]),
                !.started = @ + 1]
  /\ PageUnchanged

\* handleScanAllClouds from the Scan All Clouds button, up to `await fetch`
ScanAllClicked ==
  /\ Quiescent
  /\ ~page.state.isScanning
  /\ page.started < MaxScans
  /\ page' = [page EXCEPT
                !.state.isScanning = TRUE,
                !.state.error = "",
                !.requests = Append(@, [kind |-> "all", provider |-> "AWS",
                                        stage |-> "fetch", outcome |-> ""]),
                !.started = @ + 1]
  /\ PageUnchanged

\* executeCloudScan after the fetch of provider p has ended in outcome: the
\* try, the catch and the finally block
executeCloudScan(state, p, outcome) ==
  LET tried ==
        IF outcome = "success"
        THEN [state EXCEPT
                !.assets = @ \o [i \in DOMAIN ResponseAssets(p) |->
                                   ResponseAssets(p)[i] @@ [notes |-> ""]],
                !.costSummary = <<ResponseCostSummary>>]
        ELSE [state EXCEPT !.error = "failed",
                           !.assets = @ \o FallbackAssets(p)]
  IN  [tried EXCEPT !.isScanning = FALSE, !.selectedProvider = ""]

\* handleScanAllClouds after its fetch has ended in outcome
handleScanAllClouds(state, p, outcome) ==
  LET tried ==
        IF outcome \in {"success", "partial"}
        THEN [state EXCEPT
                !.error = IF outcome = "partial" THEN "partial" ELSE @,
                !.assets = @ \o [i \in DOMAIN ResponseAssets(p) |->
                                   ResponseAssets(p)[i] @@ [notes |-> "auto"]],
                !.costSummary = <<ResponseCostSummary>>]
        ELSE loadDemoData([state EXCEPT !.error = "failed"])
  IN  [tried EXCEPT !.isScanning = FALSE]

\* the rest of the handler of request r, its fetch and its response.json()
\* having ended in outcome
HandlerEnds(pg, i, outcome) ==
  LET r == pg.requests[i]
  IN  [pg EXCEPT
         !.state = IF r.kind = "provider"
                   THEN executeCloudScan(@, r.provider, outcome)
                   ELSE handleScanAllClouds(@, r.provider, outcome),
         !.requests = SelectIdx(pg.requests, LAMBDA j : j # i),
         !.pending = TRUE, !.touched = TRUE]

\* `await fetch(...)` of a request in flight settles: a rejection takes the
\* handler through its catch and finally blocks; a response takes it to
\* `await response.json()`, where it yields again
ScanReturns ==
  /\ Quiescent
  /\ \E i \in DOMAIN page.requests : \E outcome \in FetchOutcomes :
       /\ page.requests[i].stage = "fetch"
       /\ page' = IF outcome = "network"
                  THEN HandlerEnds(page, i, outcome)
                  ELSE [page EXCEPT !.requests[i].stage = "json",
                                    !.requests[i].outcome = outcome]
  /\ PageUnchanged

\* `await response.json()` of a request settles and its handler runs to its
\* end: the body of an ok response that does not parse is a failure like a
\* response that is not ok
JsonReturns ==
  /\ Quiescent
  /\ \E i \in DOMAIN page.requests : \E parsed \in BOOLEAN :
       /\ page.requests[i].stage = "json"
       /\ page' = HandlerEnds(page, i, IF parsed THEN page.requests[i].outcome
                                       ELSE "http")
  /\ PageUnchanged

NextPage ==
  \/ Mount
  \/ FlushEffects
  \/ Render
  \/ Unload
  \/ AddAsset
  \/ DeleteAsset
  \/ LoadDemoClicked
  \/ ScanCloudClicked
  \/ ModalCancelled
  \/ ModalScanClicked
  \/ ScanAllClicked
  \/ ScanReturns
  \/ JsonReturns

PageSpec == InitPage /\ [][NextPage]_vars

(***************************************************************************)
(* Properties of the aggregation.                                          *)
(***************************************************************************)
\* the adapters caller c dispatched, those that rejected, those that fulfilled
Dispatched(c) == Range(scanPromises[c])
FailedAdapters(c) == {p \in Dispatched(c) : promise[c][p].st = "rejected"}
SucceededAdapters(c) == {p \in Dispatched(c) : promise[c][p].st = "fulfilled"}

\* the endpoint has answered caller c with a combined result
Answered(c) ==
  pc[c] = "done" /\ response[c].kind = "json" /\ response[c].status = 200

\* the assets of the succeeded adapters of c, adapter after adapter
SucceededAssets(c) ==
  Concat([i \in DOMAIN DefaultProviders |->
            IF DefaultProviders[i] \in SucceededAdapters(c)
            THEN ScanResultOf(DefaultProviders[i], vendor[DefaultProviders[i]]).assets
            ELSE <<>>])

\* C1: the response has success = true exactly when no dispatched adapter
\* failed, its assets are exactly the assets of the adapters that succeeded,
\* and errors has one entry per failed adapter and is absent when none failed;
\* the adapters dispatched are the known providers of the requested list.
C1_PartialSuccess ==
  \A c \in PostCallers :
    Answered(c) =>
      /\ Dispatched(c) = Adapters \cap Range(providers[c])
      /\ response[c].success = (FailedAdapters(c) = {})
      /\ response[c].assets = SucceededAssets(c)
      /\ IF FailedAdapters(c) = {}
         THEN response[c].errors = <<>>
         ELSE /\ response[c].errors # <<>>
              /\ Len(response[c].errors[1]) = Cardinality(FailedAdapters(c))

\* three providers requested, exactly one of them failed, the other two
\* returned assets
C1_OneOfThreeFails ==
  \E c \in PostCallers :
    /\ Answered(c)
    /\ scanPromises[c] = DefaultProviders
    /\ Cardinality(FailedAdapters(c)) = 1
    /\ \A p \in SucceededAdapters(c) : ScanResultOf(p, vendor[p]).assets # <<>>
    /\ response[c].success = FALSE
    /\ Len(response[c].errors[1]) = 1
    /\ Len(response[c].assets) = 4

\* C2: when all three adapters of a scan over all three providers fail, the
\* response is still the combined result, with no assets, a total cost of 0,
\* empty cost maps and three errors.
C2_AllFail ==
  \A c \in PostCallers :
    (pc[c] = "done" /\ scanPromises[c] = DefaultProviders
       /\ FailedAdapters(c) = Adapters) =>
      /\ response[c].kind = "json"
      /\ response[c].status = 200
      /\ response[c].assets = <<>>
      /\ response[c].costSummary.totalCost = 0
      /\ DOMAIN response[c].costSummary.costByProvider = {}
      /\ DOMAIN response[c].costSummary.costByService = {}
      /\ DOMAIN response[c].costSummary.costByRegion = {}
      /\ response[c].errors # <<>>
      /\ Len(response[c].errors[1]) = 3

\* all three adapters were started and failed at different places
C2_AllThreeFailed ==
  \E c \in PostCallers :
    /\ pc[c] = "done"
    /\ scanPromises[c] = DefaultProviders
    /\ promise[c]["aws"].st = "rejected" /\ promise[c]["aws"].cause = "listing"
    /\ promise[c]["azure"].st = "rejected" /\ promise[c]["azure"].cause = "cost"
    /\ promise[c]["gcp"].st = "rejected" /\ promise[c]["gcp"].cause = "nobilling"
    /\ response[c].errors # <<>>

\* C3: the endpoint answers 500 only when no adapter was dispatched; whenever
\* adapters failed it answers the combined result with one error per failed
\* adapter, and scanAllClouds returns (it never rejects), logging one error
\* per failed adapter.
C3_NeverThrows ==
  /\ \A c \in PostCallers :
       /\ (response[c].kind = "json" /\ response[c].status = 500) =>
            /\ scanPromises[c] = <<>>
            /\ \A p \in Adapters : promise[c][p] = NoPromise
       /\ (pc[c] = "done" /\ FailedAdapters(c) # {}) =>
            /\ Answered(c)
            /\ response[c].errors # <<>>
            /\ Len(response[c].errors[1]) = Cardinality(FailedAdapters(c))
  /\ \A job \in Jobs :
       pc[job] = "done" =>
         /\ response[job].kind = "returned"
         /\ Len(response[job].errors) = Cardinality(FailedAdapters(job))
         /\ Len(response[job].scans) = Cardinality(SucceededAdapters(job))

\* a scheduled scan in which every adapter failed has returned
C3_AllFailedAndReturned ==
  \E job \in Jobs :
    /\ pc[job] = "done"
    /\ FailedAdapters(job) = Adapters
    /\ response[job].kind = "returned"
    /\ response[job].scans = <<>>

\* the adapters caller c has to dispatch
Requested(c) ==
  IF c \in Jobs THEN Adapters ELSE Adapters \cap Range(providers[c])

\* C4: once a scan is awaiting, every requested adapter has been started, and
\* a result exists only when every dispatched adapter has settled.
C4_WaitsForAll ==
  \A c \in Callers :
    /\ pc[c] = "awaiting" =>
         /\ Dispatched(c) = Requested(c)
         /\ \A p \in Dispatched(c) : promise[c][p].st # "none"
         /\ response[c] = NoResponse
    /\ (pc[c] = "done" /\ Dispatched(c) # {}) =>
         \A p \in Dispatched(c) : Settled(promise[c][p])

\* one adapter has failed while another is still in flight, and there is no
\* result yet
C4_FailureWhileInFlight ==
  \E c \in Callers :
    /\ pc[c] = "awaiting"
    /\ \E p \in Dispatched(c) : promise[c][p].st = "rejected"
    /\ \E p \in Dispatched(c) : InFlight(promise[c][p])
    /\ response[c] = NoResponse

\* the adapter a label of an error entry names
LabelAdapter(l) ==
  CASE l \in {"aws", "AWS"}     -> "AWS"
    [] l \in {"azure", "Azure"} -> "Azure"
    [] l \in {"gcp", "GCP"}     -> "GCP"
    [] OTHER -> ""

\* the error entries caller c reported or logged
ReportedErrors(c) ==
  IF c \in Jobs
  THEN (IF pc[c] = "done" THEN response[c].errors ELSE <<>>)
  ELSE (IF Answered(c) /\ response[c].errors # <<>> THEN response[c].errors[1]
        ELSE <<>>)

\* C5: every error entry names the provider whose adapter rejected.
C5_ErrorsNameFailedAdapter ==
  \A c \in Callers :
    \A i \in DOMAIN ReportedErrors(c) :
      LabelAdapter(ReportedErrors(c)[i].provider) = ReportedErrors(c)[i].error.adapter

\* what succeeded adapter p of caller c contributes to key k of a cost map
ServiceShare(c, p, k) ==
  IF p \in SucceededAdapters(c) /\ k \in DOMAIN ScanResultOf(p, vendor[p]).costByService
  THEN ScanResultOf(p, vendor[p]).costByService[k] ELSE 0

RegionShare(c, p, k) ==
  IF p \in SucceededAdapters(c) /\ k \in DOMAIN ScanResultOf(p, vendor[p]).costByRegion
  THEN ScanResultOf(p, vendor[p]).costByRegion[k] ELSE 0

\* C6: costByService and costByRegion of the combined summary hold, for every
\* key some succeeded scan reports, the sum of that key over the succeeded
\* scans, and no other key; costByProvider holds the totalCost of every
\* succeeded scan, and nothing for a failed one.
C6_MergedCosts ==
  \A c \in PostCallers :
    Answered(c) =>
      LET cs == response[c].costSummary
          S == SucceededAdapters(c)
      IN  /\ DOMAIN cs.costByService =
               UNION {DOMAIN ScanResultOf(p, vendor[p]).costByService : p \in S}
          /\ \A k \in DOMAIN cs.costByService :
               cs.costByService[k] =
                 ServiceShare(c, "aws", k) + ServiceShare(c, "azure", k)
                   + ServiceShare(c, "gcp", k)
          /\ DOMAIN cs.costByRegion =
               UNION {DOMAIN ScanResultOf(p, vendor[p]).costByRegion : p \in S}
          /\ \A k \in DOMAIN cs.costByRegion :
               cs.costByRegion[k] =
                 RegionShare(c, "aws", k) + RegionShare(c, "azure", k)
                   + RegionShare(c, "gcp", k)
          /\ DOMAIN cs.costByProvider = {ProviderName(p) : p \in S}
          /\ \A p \in S :
               cs.costByProvider[ProviderName(p)] = ScanResultOf(p, vendor[p]).totalCost

\* AWS and GCP succeeded, each reporting "storage": 10, Azure (which would
\* report "storage" too) failed: the combined "storage" is 20
C6_CollidingKeys ==
  \E c \in PostCallers :
    /\ Answered(c)
    /\ SucceededAdapters(c) = {"aws", "gcp"}
    /\ FailedAdapters(c) = {"azure"}
    /\ ServiceShare(c, "aws", "storage") = 10
    /\ ServiceShare(c, "gcp", "storage") = 10
    /\ "storage" \in DOMAIN ScanResultOf("azure", vendor["azure"]).costByService
    /\ response[c].costSummary.costByService["storage"] = 20

(***************************************************************************)
(* Properties of the adapters and of the persistence writer.               *)
(***************************************************************************)
\* C7: when a resource listing call of the adapter fails, the adapter call
\* fails as a whole: it does not return an asset list.
C7_AllOrNothing ==
  (connector.pc = "returned" /\ (connector.ec2Failed \/ connector.s3Failed)) =>
    connector.result.status = "rejected"

\* the number of rows of the table for a provider's resource
RowsOf(table, provider, resourceId) ==
  BagCardinality([r \in {x \in BagToSet(table) :
                           x.provider = provider /\ x.resourceId = resourceId}
                    |-> table[r]])

\* C8: an adapter call has no effect on storage: a step of an adapter call
\* (fetchAWSAssetsAndCosts, fetchAzureAssetsAndCosts, fetchGCPAssetsAndCosts)
\* leaves the scan-history table unchanged.
C8_AdaptersDoNotWrite ==
  [][(promise' # promise) => (cloudScan' = cloudScan)]_vars

\* C9: a provider whose listing and cost query succeeded but whose write to
\* the scan history failed is among the succeeded providers of the response,
\* and no entry of errors is about it.
C9_SaveFailureIsNotScanFailure ==
  \A c \in PostCallers :
    Answered(c) =>
      \A p \in Dispatched(c) :
        promise[c][p].cause = "save" =>
          /\ ProviderName(p) \in Range(response[c].providers)
          /\ \A i \in DOMAIN ReportedErrors(c) :
               ReportedErrors(c)[i].error.adapter # ProviderName(p)

\* the number of rows of the table with the given uniqueness key
RowsWithKey(table, key) ==
  BagCardinality([r \in {x \in BagToSet(table) : UniqueKey(x) = key} |-> table[r]])

\* C10: a call of saveScanResults that repeats an earlier call (same
\* provider, same asset batch, same scan-timestamp buckets) leaves the table
\* as it was, and after every call that returns the table holds exactly one
\* row for each asset of the batch in its bucket.
C10_IdempotentReplay ==
  [][ (Len(log') = Len(log) + 1) =>
        LET e == log'[Len(log')]
        IN  /\ (\E i \in DOMAIN log :
                  /\ ~log[i].threw
                  /\ log[i].provider = e.provider
                  /\ log[i].assets = e.assets
                  /\ log[i].scannedAt = e.scannedAt) => (cloudScan' = cloudScan)
            /\ ~e.threw =>
                 \A i \in DOMAIN e.assets :
                   RowsWithKey(cloudScan',
                               <<e.provider, e.assets[i].id, e.scannedAt[i]>>) = 1
    ]_vars

\* the same non-empty batch has been recorded twice in one bucket and the
\* table holds one row per asset
C10_Replayed ==
  /\ Len(log) = 2
  /\ ~log[1].threw /\ ~log[2].threw
  /\ log[1].provider = log[2].provider
  /\ log[1].assets = log[2].assets
  /\ log[1].scannedAt = log[2].scannedAt
  /\ Len(log[1].assets) = 2
  /\ BagCardinality(cloudScan) = 2

(***************************************************************************)
(* Properties of concurrent scans.                                         *)
(***************************************************************************)
\* two callers' scans are in progress at once and the AWS adapter of each has
\* saved its rows
BothSaved(c, d) ==
  /\ c # d
  /\ pc[c] = "awaiting" /\ pc[d] = "awaiting"
  /\ promise[c]["aws"].st = "fulfilled"
  /\ promise[d]["aws"].st = "fulfilled"

\* C11: with two callers scanning the same provider at once, in every
\* interleaving of their adapter calls and writes, once both have saved, the
\* scan-history table holds exactly one row for each discovered asset, and no
\* two rows have the same provider, resourceId and scan-timestamp bucket.
C11_ConcurrentScansOneRowPerAsset ==
  \A c, d \in ConcurrentCallers :
    BothSaved(c, d) =>
      LET assets == ScanResultOf("aws", vendor["aws"]).assets
      IN  /\ \A r \in BagToSet(cloudScan) : RowsWithKey(cloudScan, UniqueKey(r)) = 1
          /\ \A i \in DOMAIN assets : RowsOf(cloudScan, "AWS", assets[i].id) = 1

(***************************************************************************)
(* Properties of the cost figures of one adapter call.                     *)
(***************************************************************************)
\* the adapter call has computed its ScanResult
Computed ==
  \/ scanResult.pc \in {"saving", "fulfilled"}
  \/ scanResult.pc = "rejected" /\ scanResult.cause = "save"

\* the even split the specification asks for: costByService[service] over
\* the number of assets of that service, 0 without an entry
EvenSplit(result, a) ==
  IF a.service \in DOMAIN result.costByService
  THEN Quot(result.costByService[a.service], CountService(result.assets, a.service))
  ELSE Zero

\* C12: for every asset a of the ScanResult of any of the three adapters,
\* a.costThisMonth = costByService[a.service] / (number of assets of the
\* batch with a's service) when costByService has an entry for a.service,
\* and 0 otherwise.
C12_EvenSplit ==
  Computed =>
    \A i \in DOMAIN scanResult.result.assets :
      scanResult.result.assets[i].costThisMonth =
        EvenSplit(scanResult.result, scanResult.result.assets[i])

\* the sum of the values of a cost map
RECURSIVE MapSum(_)
MapSum(m) ==
  IF DOMAIN m = {} THEN 0
  ELSE LET k == CHOOSE x \in DOMAIN m : TRUE
       IN  m[k] + MapSum([x \in (DOMAIN m) \ {k} |-> m[x]])

\* C13: the totalCost of the ScanResult of any adapter equals the sum of
\* the values of its costByService map, whatever the cost query answered.
C13_TotalIsSumOfServices ==
  Computed =>
    scanResult.result.totalCost = MapSum(scanResult.result.costByService)

\* C14: every asset of an adapter's result, and every row the adapter
\* writes to the scan history, has costThisMonth >= 0, whatever amounts the
\* bill reports.
C14_CostNotNegative ==
  /\ Computed =>
       \A i \in DOMAIN scanResult.result.assets :
         scanResult.result.assets[i].costThisMonth.num >= 0
  /\ \A r \in BagToSet(cloudScan) : r.costThisMonth.num >= 0

(***************************************************************************)
(* Properties of connection inference.                                     *)
(***************************************************************************)
\* C15: after addConnections of any connector (AWS, Azure, GCP), no asset
\* of the batch has its own id among its connectedAssets.
C15_NoSelfLoop ==
  connector.pc = "connected" =>
    \A i \in DOMAIN connector.assets :
      connector.assets[i].id \notin Range(connector.assets[i].connectedAssets)

(***************************************************************************)
(* Properties of the trend query.                                          *)
(***************************************************************************)
\* the call has answered with a payload it computed from the query's rows
Computes(c) ==
  /\ trends[c].pc = "done"
  /\ trends[c].queried
  /\ trends[c].response.status = 200

\* the rows of the same provider before row i
Before(rows, i) == {j \in 1..(i - 1) : rows[j].provider = rows[i].provider}

\* the percent_change the specification asks for in row i: "0.00" for a
\* provider's first row, else the change from that provider's previous row
\* (left open when that row's total is 0), to within half a hundredth
ChangeAsSpecified(rows, i, change) ==
  LET before == Before(rows, i)
      last == CHOOSE j \in before : \A k \in before : k <= j
  IN  IF before = {} THEN change = [nan |-> FALSE, hundredths |-> 0]
      ELSE rows[last].total_cost # 0 =>
             /\ ~change.nan
             /\ 2 * Abs(change.hundredths * rows[last].total_cost
                          - (rows[i].total_cost - rows[last].total_cost) * 10000)
                  <= Abs(rows[last].total_cost)

SingleProvider(rows) == Cardinality({rows[i].provider : i \in DOMAIN rows}) <= 1

\* C16: for one provider's month-ordered totals, the first row of the
\* response has percentChange 0 and every later row has
\* (current - previous) / previous * 100, previous being the total of the row
\* before it (to the two decimals of the response).
C16_PercentChangeOfSeries ==
  \A c \in TrendCalls :
    (Computes(c) /\ SingleProvider(trends[c].rows)) =>
      \A i \in DOMAIN trends[c].rows :
        ChangeAsSpecified(trends[c].rows, i, trends[c].json[i].percent_change)

\* C17: with rows of several providers, each row's percentChange is the
\* change from the preceding month's row of the same provider, and 0 for
\* each provider's first row.
C17_PercentChangePerProvider ==
  \A c \in TrendCalls :
    (Computes(c) /\ ~SingleProvider(trends[c].rows)) =>
      \A i \in DOMAIN trends[c].rows :
        ChangeAsSpecified(trends[c].rows, i, trends[c].json[i].percent_change)

(***************************************************************************)
(* Properties of the trend cache.                                          *)
(***************************************************************************)
\* call b arrived after call a had answered, a stored its payload, b's
\* redis.get returned, and no third call stored under a's key
Follows(a, b) ==
  /\ a # b
  /\ a \in trends[b].after
  /\ trends[a].setAt >= 0
  /\ trends[b].got \in {"hit", "miss"}
  /\ \A c \in TrendCalls \ {a, b} :
       trends[c].setAt >= 0 =>
         CacheKeyOf(trends[c].filter) # CacheKeyOf(trends[a].filter)

\* b's redis.get returned less than the expiry after a's redis.setEx
WithinTTL(a, b) == (trends[b].getAt - trends[a].setAt) * 3600 < CacheSeconds

\* C18: of two calls with identical filters, a second one made within the
\* hour after the first stored its payload runs no aggregate query and
\* answers with the payload the first stored, verbatim; one made after the
\* expiry runs the query again and stores its result again.
C18_CachedWithinTTL ==
  \A a, b \in TrendCalls :
    (Follows(a, b) /\ trends[a].filter = trends[b].filter) =>
      IF WithinTTL(a, b)
      THEN /\ trends[b].got = "hit"
           /\ ~trends[b].queried
           /\ trends[b].pc = "done"
           /\ trends[b].response = TrendResponse(trends[a].json)
      ELSE /\ trends[b].got = "miss"
           /\ trends[b].pc = "done" => trends[b].queried
           /\ trends[b].setAt >= 0 =>
                [key |-> CacheKeyOf(trends[b].filter), value |-> trends[b].json,
                 setAt |-> trends[b].setAt] \in redis.store

\* a second call with the same filter, made within the hour after the first
\* stored its one-row payload, has been answered with that payload
C18_SecondCallFromCache ==
  \E a, b \in TrendCalls :
    /\ Follows(a, b)
    /\ trends[a].filter = trends[b].filter
    /\ WithinTTL(a, b)
    /\ trends[b].pc = "done"
    /\ trends[b].response = TrendResponse(trends[a].json)
    /\ Len(trends[a].json) = 1

\* the two filters name the same set of providers and the same region,
\* service and months
SameFilter(f, g) ==
  /\ Range(f.providers) = Range(g.providers)
  /\ f.region = g.region
  /\ f.service = g.service
  /\ f.months = g.months

\* C19: the cache key does not depend on the order of the providers: two
\* requests with equal provider sets, listed in any order, and equal region,
\* service and months have the same key, and the second one within the hour
\* is a cache hit.
C19_KeyIgnoresProviderOrder ==
  \A a, b \in TrendCalls :
    SameFilter(trends[a].filter, trends[b].filter) =>
      /\ CacheKeyOf(trends[a].filter) = CacheKeyOf(trends[b].filter)
      /\ (Follows(a, b) /\ WithinTTL(a, b)) => trends[b].got = "hit"

\* C20: a call whose cache read or cache write failed (the client is not
\* connected, or the command fails) has still run the aggregate query and
\* answers 200 with the trend payload computed from its rows.
C20_CacheIsBestEffort ==
  \A c \in TrendCalls :
    (trends[c].pc = "done" /\ trends[c].failed \in {"get", "set"}) =>
      /\ trends[c].queried
      /\ trends[c].response = TrendResponse(trends[c].json)

(***************************************************************************)
(* Properties of the trend endpoint over a growing scan history.           *)
(***************************************************************************)
\* C21: caching is transparent: the payload a call answers with, taken from
\* the cache or computed, is a response the direct aggregate query over the
\* scan history gives at that moment.
C21_CacheIsTransparent ==
  [][\A c \in TrendCalls :
       /\ (trends[c].pc = "get" /\ trends'[c].got = "hit") =>
            trends'[c].response \in
              DirectResponses(cloudScan, trends[c].filter, now)
       /\ (trends[c].pc = "query" /\ trends'[c].pc = "set") =>
            TrendResponse(trends'[c].json) \in
              DirectResponses(cloudScan, trends[c].filter, now)]_vars

(***************************************************************************)
(* Properties of the trend endpoint's failures.                            *)
(***************************************************************************)
\* call c has ended in a failure of its aggregate query
QueryFailed(c) == trends[c].pc = "done" /\ trends[c].failed = "query"

\* C22: a call whose aggregate query failed answers with an error that
\* carries no trend rows and stores nothing; every cache entry is the whole
\* payload of a call that succeeded; and a later call with the same filter,
\* no other call having stored under the key, misses the cache and runs
\* the query again.
C22_QueryFailureNotCached ==
  /\ \A c \in TrendCalls :
       QueryFailed(c) =>
         /\ trends[c].response = TrendError
         /\ "trends" \notin DOMAIN trends[c].response
         /\ trends[c].setAt < 0
  /\ \A e \in redis.store :
       \E c \in TrendCalls :
         /\ trends[c].failed = "none"
         /\ trends[c].setAt = e.setAt
         /\ e.key = CacheKeyOf(trends[c].filter)
         /\ e.value = PercentChange(trends[c].rows)
  /\ \A a, b \in TrendCalls :
       ( /\ QueryFailed(a)
         /\ a \in trends[b].after
         /\ trends[b].filter = trends[a].filter
         /\ trends[b].got \in {"hit", "miss"}
         /\ \A c \in TrendCalls \ {a, b} :
              trends[c].setAt >= 0 =>
                CacheKeyOf(trends[c].filter) # CacheKeyOf(trends[a].filter) )
       => /\ trends[b].got = "miss"
          /\ trends[b].pc = "done" => trends[b].queried

\* after a call whose query failed, a second call with the same filter has
\* run the query and answered 200 with a row
C22_RetriedAfterFailure ==
  \E a, b \in TrendCalls :
    /\ QueryFailed(a)
    /\ a \in trends[b].after
    /\ trends[b].filter = trends[a].filter
    /\ trends[b].pc = "done"
    /\ trends[b].queried
    /\ trends[b].response = TrendResponse(trends[b].json)
    /\ Len(trends[b].json) >= 1

(***************************************************************************)
(* Properties of the scheduler.                                            *)
(***************************************************************************)
\* run r has returned with at least one adapter failed
RunFailed(r) == pc[r] = "done" /\ response[r].errors # <<>>

\* this step dispatches an adapter call of run r that was not in flight
Dispatches(r) ==
  \E p \in Adapters : ~InFlight(promise[r][p]) /\ promise'[r][p] # promise[r][p]

\* C23: a failed scheduled run is only logged.  The runs of a job that have
\* started are exactly one per tick of the job; a step dispatches adapter
\* calls only when it is a tick of the run's job, and then for the one run
\* of that tick; and after a run has failed every job can still tick.
C23_NoRetryUntilNextTick ==
  /\ [](\A job \in Jobs :
          {k \in 1..MaxTicks : pc[<<job, k>>] # "idle"} = 1..cron.ticks[job])
  /\ [][\A r \in Runs :
          Dispatches(r) =>
            /\ cron'.ticks[r[1]] = cron.ticks[r[1]] + 1
            /\ r[2] = cron'.ticks[r[1]]
            /\ \A q \in Runs \ {r} : promise'[q] = promise[q]]_vars
  /\ [](\A job \in Jobs :
          ( /\ \E r \in Runs : RunFailed(r)
              /\ cron.ticks["daily"] + cron.ticks["weekly"] < MaxTicks )
            => ENABLED SchedulerTick(job))

\* the first daily run has returned with every adapter failed, and the
\* second daily run has been started by the next tick
C23_NextTickAfterFailure ==
  /\ RunFailed(<<"daily", 1>>)
  /\ response[<<"daily", 1>>].scans = <<>>
  /\ cron.ticks["daily"] = 2
  /\ pc[<<"daily", 2>>] = "awaiting"

\* run r is in progress: scanAllClouds awaits its adapters
InProgress(r) == pc[r] = "awaiting"

\* C26: the scheduler enforces no mutual exclusion.  While a run is in
\* progress every job can tick, and a tick starts its run, dispatching the
\* three adapters, and leaves the runs in progress as they are.
C26_NoMutualExclusion ==
  /\ [](\A job \in Jobs :
          ( /\ \E r \in Runs : InProgress(r)
              /\ cron.ticks["daily"] + cron.ticks["weekly"] < MaxTicks )
            => ENABLED SchedulerTick(job))
  /\ [][\A job \in Jobs :
          cron'.ticks[job] # cron.ticks[job] =>
            LET r == <<job, cron'.ticks[job]>>
            IN  /\ pc'[r] = "awaiting"
                /\ promise'[r] = [p \in Adapters |-> Dispatch(p)]
                /\ \A q \in Runs \ {r} :
                     pc'[q] = pc[q] /\ promise'[q] = promise[q]]_vars

\* a daily run has outlived the next daily tick and the two runs are in
\* progress together: the first still waits for its write, the write of
\* the second has put its rows in the table
C26_RunsOverlap ==
  /\ \A r \in {<<"daily", 1>>, <<"daily", 2>>} : InProgress(r)
  /\ promise[<<"daily", 1>>]["aws"].st = "saving"
  /\ promise[<<"daily", 2>>]["aws"].st = "fulfilled"
  /\ cloudScan # EmptyBag

(***************************************************************************)
(* Properties of the credential checks.                                    *)
(***************************************************************************)
\* the adapter called has issued an SDK call
AdapterSdkCalled ==
  LET pr == promise["post"][scanResult.adapter]
  IN  InFlight(pr) \/ pr.st = "fulfilled" \/ (pr.st = "rejected" /\ pr.cause # "config")

\* the request's body names no usable credentials: it has no body, is null,
\* or lacks a field the endpoint requires
CredentialsAbsent ==
  \/ connector.body.kind \in {"empty", "null"}
  \/ ~EndpointRequired(connector.provider, connector.body.fields)

\* C24 as stated: missing credentials end in an error before any SDK call
\* and before any write, and every per-provider request whose credential
\* fields are absent is answered 400, not 500.
C24_MissingCredentialsFailFast ==
  /\ (scanResult.pc = "called" /\ ~EnvConfigured(scanResult.adapter, scanResult.env)) =>
       /\ promise["post"][scanResult.adapter] = Rejected("config")
       /\ ~AdapterSdkCalled
       /\ cloudScan = EmptyBag
  /\ (connector.pc # "idle" /\ CredentialsAbsent) =>
       /\ connector.pc = "done"
       /\ ~connector.sdk
       /\ connector.response.status = 400

\* C24, amended: missing credentials end in an error before any SDK call and
\* before any write; a per-provider request whose body is a JSON object
\* lacking a required field is answered 400, and one without a body or with
\* the body null is answered with the 500 scan-failure response.
C24_MissingCredentialsFailFastOrParse ==
  /\ (scanResult.pc = "called" /\ ~EnvConfigured(scanResult.adapter, scanResult.env)) =>
       /\ promise["post"][scanResult.adapter] = Rejected("config")
       /\ ~AdapterSdkCalled
       /\ cloudScan = EmptyBag
  /\ (connector.pc # "idle" /\ CredentialsAbsent) =>
       /\ connector.pc = "done"
       /\ ~connector.sdk
       /\ connector.response =
            IF connector.body.kind = "object"
            THEN MissingCredentials(connector.provider)
            ELSE ScanFailed(connector.provider)
  /\ cloudScan # EmptyBag =>
       scanResult.pc = "called" /\ EnvConfigured(scanResult.adapter, scanResult.env)

\* the Azure adapter has been called without AZURE_TENANT_ID and has thrown,
\* and the GCP endpoint has answered 400 to a body with a project id and
\* neither key file nor credentials
C24_RejectedWithoutCalls ==
  /\ scanResult.pc = "called"
  /\ scanResult.adapter = "azure"
  /\ scanResult.env.tenantId = "" /\ scanResult.env.clientId # ""
  /\ promise["post"]["azure"] = Rejected("config")
  /\ connector.pc = "done"
  /\ connector.provider = "gcp"
  /\ connector.body.kind = "object"
  /\ connector.body.fields.projectId # ""
  /\ connector.response = MissingCredentials("gcp")

(***************************************************************************)
(* Properties of the dashboard page.                                       *)
(***************************************************************************)
\* the records this step has appended to the page's asset list
AddedAssets ==
  {page'.state.assets[i] :
     i \in (Len(page.state.assets) + 1)..Len(page'.state.assets)}

\* C25: a scan that ends, failed or not, adds no mock and no demo record to
\* the asset list and does not replace the cost summary by the demo summary.
C25_NoInventedData ==
  [][(page.pc = "mounted" /\ page'.pc = "mounted"
        /\ Len(page'.requests) < Len(page.requests)) =>
       /\ \A a \in AddedAssets : a.notes \notin {"mock", "demo"}
       /\ page'.state.costSummary = <<DemoCostSummary>> =>
            page.state.costSummary = <<DemoCostSummary>>]_vars

\* C29: at most one scan request of the page is in flight, isScanning is
\* true while one is, and false when none is.
C29_OneScanInFlight ==
  /\ Len(page.requests) <= 1
  /\ page.requests # <<>> => page.state.isScanning
  /\ (page.pc = "mounted" /\ page.requests = <<>>) => ~page.state.isScanning

\* no handler has changed the list since the page mounted
Untouched == page.pc = "mounted" /\ ~page.touched

\* C30: the asset list survives a reload.  Once the effects have run after
\* the mount the list in memory is the list localStorage held before the
\* mount; whenever nothing is waiting to run localStorage holds the current
\* list; and localStorage never holds the initial empty list while the
\* stored list was not empty and has not been changed.
C30_ListSurvivesReload ==
  /\ (Quiescent /\ Untouched) =>
       page.state.assets = page.atMount.value
  /\ Quiescent => page.storage = Item(page.state.assets)
  /\ (Untouched /\ page.atMount.present /\ page.atMount.value # <<>>) =>
       page.storage.value # <<>>

\* C27: two requests whose filters differ compute different cache keys, and
\* a request answered from the cache gets a payload that was computed for
\* its own filter.
C27_DistinctFiltersDistinctKeys ==
  \A c \in TrendCalls : \A d \in TrendCalls :
    (trends[c].pc # "idle" /\ trends[d].pc # "idle") =>
      /\ CacheKeyOf(trends[c].filter) = CacheKeyOf(trends[d].filter) =>
           SameFilter(trends[c].filter, trends[d].filter)
      /\ (d \in trends[c].after /\ trends[c].got = "hit") =>
           SameFilter(trends[c].filter, trends[d].filter)

\* C28: every row of a computed response carries a number as its percent
\* change, whatever the monthly totals are: the divisor is never zero.
C28_PercentChangeFinite ==
  \A c \in TrendCalls :
    trends[c].queried =>
      \A i \in DOMAIN trends[c].json : ~trends[c].json[i].percent_change.nan

====
